---- MODULE Spec2Model ----
(***************************************************************************)
(* Model of the native arithmetic core of node-zk-accelerate:              *)
(*   neon_montgomery.cc  multi-limb Montgomery multiplication (4/6 limbs), *)
(*                       single and batch                                  *)
(*   blas_ops.cc         blas_bucket_accumulate                            *)
(*   sme_ops.cc          sme_bucket_outer_product                          *)
(* Limbs are uint64_t in the source; the model keeps the same algorithms   *)
(* over limbs of LimbBits bits (all arithmetic is taken modulo the limb    *)
(* base exactly where the source truncates to uint64_t).  Arrays are       *)
(* functions over 0..n-1 so that the source's indices are kept.            *)
(***************************************************************************)
EXTENDS Integers, Sequences, FiniteSets, TLC

VARIABLES
    op,              \* entry point under call
    pc,              \* "call" before the entry point runs, "done" after it returned, "fault" if it did not return
    NEON_AVAILABLE,  \* build flag, neon_montgomery.cc:16-21
    limb_count,      \* limbs per element
    count,           \* number of operand pairs (1 for the single multiply)
    a,               \* first operands, count*limb_count limbs
    b,               \* second operands, count*limb_count limbs
    modulus,         \* modulus, limb_count limbs
    mu,              \* Montgomery constant supplied by the caller
    t,               \* scratch buffer t[2*limb_count] of the last multiply
    result,          \* output buffer
    mul_calls,       \* number of single Montgomery multiplies the call performed
    APPLE,           \* build flag __APPLE__
    has_sme,         \* what has_sme_support() reports on this machine
    g_sme_checked,   \* sme_ops.cc:26
    g_sme_available, \* sme_ops.cc:27
    scalars,         \* sme_bucket_outer_product: scalars[num_points]
    bucket_indices,  \* blas_bucket_accumulate: bucket_indices[num_points]
    points,          \* point coordinates, num_points*coord_size values
    buckets,         \* bucket array (buckets / bucket_accum), num_buckets*coord_size values
    buckets0,        \* content of the bucket array when the call started
    num_points,      \* num_points / num_scalars
    num_buckets,
    coord_size,      \* 1 for sme_bucket_outer_product
    window_size,
    alloc_fail,      \* index (in call order) of the allocation that returns NULL, -1 if none does
    path,            \* which strategy ran: "none", "dense", "direct", "dense+direct";
                     \* "vdsp" or "scalar" for the butterfly
    ret,             \* return value of sme_bucket_outer_product
    writes,          \* indices of the bucket array the call stored to
    helper_ret,      \* return value of add_with_carry / sub_with_borrow / compare_limbs
    mem,             \* content of each buffer, by address (calls whose pointers may alias)
    mem0,            \* content of the buffers when the call started
    in_even,         \* address held by each pointer argument ("NULL" for a null pointer)
    in_odd,
    twiddle_real,
    twiddle_imag,
    out_even,
    out_odd,
    n_elems,         \* argument n of vdsp_ntt_butterfly_f64
    reads,           \* addresses the call loaded from
    result_ptr,      \* address held by the result argument of the Montgomery entry points
    js_args,         \* arguments of the call from JavaScript (info[0], info[1], ...)
    js_exception,    \* pending JavaScript exception, "none" if there is none
    js_result,       \* the Float64Array the binding returned
    kernel_calls,    \* number of times the binding invoked its vector kernel
    thread_pc,       \* sme_available: line each thread is at, "idle" outside a call
    thread_ret,      \* sme_available: values each thread's calls have returned
    calls_made,      \* sme_available: calls each thread has started
    probe_calls      \* number of times has_sme_support ran

mont_vars == <<NEON_AVAILABLE, limb_count, count, a, b, modulus, mu, t, result, mul_calls,
               helper_ret>>
bucket_vars == <<APPLE, has_sme, g_sme_checked, g_sme_available, scalars, bucket_indices,
                 points, buckets, buckets0, num_points, num_buckets, coord_size, window_size,
                 alloc_fail, path, ret, writes>>
vdsp_vars == <<mem, mem0, in_even, in_odd, twiddle_real, twiddle_imag, out_even, out_odd, n_elems,
               reads>>
host_vars == <<result_ptr, js_args, js_exception, js_result, kernel_calls, thread_pc,
               thread_ret, calls_made, probe_calls>>
vars == <<op, pc, mont_vars, bucket_vars, vdsp_vars, host_vars>>

\* the variables of the other component, at rest
MontIdle ==
    /\ NEON_AVAILABLE = FALSE /\ limb_count = 0 /\ count = 0
    /\ a = << >> /\ b = << >> /\ modulus = << >> /\ mu = 0
    /\ t = << >> /\ result = << >> /\ mul_calls = 0 /\ helper_ret = 0

VdspIdle ==
    /\ mem = << >> /\ mem0 = << >> /\ in_even = "NULL" /\ in_odd = "NULL"
    /\ twiddle_real = "NULL" /\ twiddle_imag = "NULL"
    /\ out_even = "NULL" /\ out_odd = "NULL" /\ n_elems = 0 /\ reads = {}

HostIdle ==
    /\ result_ptr = "result"
    /\ js_args = << >> /\ js_exception = "none" /\ js_result = << >> /\ kernel_calls = 0
    /\ thread_pc = << >> /\ thread_ret = << >> /\ calls_made = << >> /\ probe_calls = 0

BucketIdle ==
    /\ APPLE = FALSE /\ has_sme = FALSE
    /\ g_sme_checked = FALSE /\ g_sme_available = FALSE
    /\ scalars = << >> /\ bucket_indices = << >> /\ points = << >>
    /\ buckets = << >> /\ buckets0 = << >>
    /\ num_points = 0 /\ num_buckets = 0 /\ coord_size = 0 /\ window_size = 0
    /\ alloc_fail = -1 /\ path = "none" /\ ret = FALSE /\ writes = {}

(***************************************************************************)
(* Bounds of the model.                                                    *)
(***************************************************************************)
LimbBits == 2     \* width of one limb in the model (uint64_t in the source)
ModWidth == 5     \* moduli are sampled in windows of this many odd values
EdgeWidth == 5    \* operands are sampled this close to 0 and to the modulus
MaxCount == 2     \* largest batch
MaxLimbCount == 7 \* largest limb_count handed to the batch multiplier
MaxNegLimbCount == 1  \* most negative limb_count handed to the batch multiplier
SizeBits == 12    \* width of size_t in the model
MaxPoints == 3    \* largest num_points / num_scalars
MaxScalar == 3    \* largest scalar value
MaxWindow == 2    \* largest window_size
MaxBuckets == 3   \* largest num_buckets
MaxIndex == 3     \* largest bucket index handed to blas_bucket_accumulate
MaxCoordSize == 2 \* largest coord_size
MaxElems == 2     \* largest n of vdsp_ntt_butterfly_f64

RECURSIVE Pow2(_)
Pow2(n) == IF n <= 0 THEN 1 ELSE 2 * Pow2(n - 1)

Base == Pow2(LimbBits)
SizeMod == Pow2(SizeBits)

RECURSIVE RadixPow(_)
RadixPow(n) == IF n <= 0 THEN 1 ELSE Base * RadixPow(n - 1)

ZeroLimbs(n) == [k \in 0..(n - 1) |-> 0]
FillLimbs(n, v) == [k \in 0..(n - 1) |-> v]
Slice(x, from, n) == [k \in 0..(n - 1) |-> x[from + k]]
ToLimbs(v, n) == [k \in 0..(n - 1) |-> (v \div RadixPow(k)) % Base]

RECURSIVE ValueFrom(_, _, _)
ValueFrom(x, k, n) == IF k >= n THEN 0 ELSE x[k] + Base * ValueFrom(x, k + 1, n)
Value(x, n) == ValueFrom(x, 0, n)

(***************************************************************************)
(* Limb primitives, neon_montgomery.cc:38-86                               *)
(***************************************************************************)
\* mutant: the carry of the previous limb is not added
RECURSIVE add_loop_no_carry_in(_, _, _, _, _, _)
add_loop_no_carry_in(x, y, res, i, carry, n) ==
    IF i >= n THEN [result |-> res, carry |-> carry]
    ELSE LET sum == x[i] + y[i]
         IN add_loop_no_carry_in(x, y, [res EXCEPT ![i] = sum % Base], i + 1, sum \div Base, n)

RECURSIVE add_loop(_, _, _, _, _, _)
add_loop(x, y, res, i, carry, n) ==
    IF i >= n THEN [result |-> res, carry |-> carry]
    ELSE LET sum == x[i] + y[i] + carry
         IN add_loop(x, y, [res EXCEPT ![i] = sum % Base], i + 1, sum \div Base, n)

add_with_carry(x, y, n) == add_loop(x, y, x, 0, 0, n)

\* mutant: the borrow out ignores the borrow in (a[i] == b[i] with borrow = 1)
RECURSIVE sub_loop_borrow_by_compare(_, _, _, _, _, _)
sub_loop_borrow_by_compare(x, y, res, i, borrow, n) ==
    IF i >= n THEN [result |-> res, borrow |-> borrow]
    ELSE LET diff == (x[i] - y[i] - borrow) % (Base * Base)
         IN sub_loop_borrow_by_compare(x, y, [res EXCEPT ![i] = diff % Base], i + 1,
                                       IF x[i] < y[i] THEN 1 ELSE 0, n)

\* diff is computed in the double-width unsigned type: it wraps modulo Base^2
RECURSIVE sub_loop(_, _, _, _, _, _)
sub_loop(x, y, res, i, borrow, n) ==
    IF i >= n THEN [result |-> res, borrow |-> borrow]
    ELSE LET diff == (x[i] - y[i] - borrow) % (Base * Base)
         IN sub_loop(x, y, [res EXCEPT ![i] = diff % Base], i + 1,
                     IF diff \div Base # 0 THEN 1 ELSE 0, n)

sub_with_borrow(x, y, n) == sub_loop(x, y, x, 0, 0, n)

RECURSIVE compare_from(_, _, _)
compare_from(x, y, i) ==
    IF i < 0 THEN 0
    ELSE IF x[i] < y[i] THEN -1
    ELSE IF x[i] > y[i] THEN 1
    ELSE compare_from(x, y, i - 1)

\* mutant: scans from the least-significant limb
RECURSIVE compare_from_lsb(_, _, _, _)
compare_from_lsb(x, y, i, n) ==
    IF i >= n THEN 0
    ELSE IF x[i] < y[i] THEN -1
    ELSE IF x[i] > y[i] THEN 1
    ELSE compare_from_lsb(x, y, i + 1, n)

compare_limbs_lsb_first(x, y, n) == compare_from_lsb(x, y, 0, n)

\* mutant: only the most-significant limb is compared
compare_limbs_top_limb_only(x, y, n) ==
    IF n <= 0 THEN 0
    ELSE IF x[n - 1] < y[n - 1] THEN -1 ELSE IF x[n - 1] > y[n - 1] THEN 1 ELSE 0

compare_limbs(x, y, n) == compare_from(x, y, n - 1)

\* uint64_t[n]: an array of n words
Words(n) == [0..(n - 1) -> 0..(Base - 1)]

\* the element of a one-element set: an iteration's state is computed before
\* the next iteration is entered
TheOnly(S) == CHOOSE x \in S : TRUE

(***************************************************************************)
(* NEON build: neon_schoolbook_mul and neon_montgomery_reduce              *)
(***************************************************************************)
mul64_neon(x, y) == [lo |-> (x * y) % Base, hi |-> (x * y) \div Base]

\* mutant: the carry out of the low-word addition is not added to hi
RECURSIVE schoolbook_inner_no_sum_carry(_, _, _, _, _, _, _)
schoolbook_inner_no_sum_carry(x, y, res, i, j, carry, n) ==
    IF j >= n THEN [result |-> res, carry |-> carry]
    ELSE LET p == mul64_neon(x[i], y[j])
             sum == res[i + j] + p.lo + carry
         IN schoolbook_inner_no_sum_carry(x, y, [res EXCEPT ![i + j] = sum % Base], i, j + 1,
                                          p.hi, n)

\* inner loop of neon_schoolbook_mul; carry is a uint64_t
RECURSIVE schoolbook_inner(_, _, _, _, _, _, _)
schoolbook_inner(x, y, res, i, j, carry, n) ==
    IF j >= n THEN [result |-> res, carry |-> carry]
    ELSE LET p == mul64_neon(x[i], y[j])
             sum == res[i + j] + p.lo + carry
         IN TheOnly({schoolbook_inner(x, y, s.result, i, j + 1, s.carry, n) :
                        s \in {[result |-> [res EXCEPT ![i + j] = sum % Base],
                                carry |-> (p.hi + (sum \div Base)) % Base]}})

\* while (carry && k < 2*limb_count): the carry left when k reaches the end is dropped
RECURSIVE schoolbook_carry(_, _, _, _)
schoolbook_carry(res, k, carry, limit) ==
    IF carry = 0 \/ k >= limit THEN [result |-> res, carry |-> carry, k |-> k]
    ELSE LET sum == res[k] + carry
         IN TheOnly({schoolbook_carry(s.result, k + 1, s.carry, limit) :
                        s \in {[result |-> [res EXCEPT ![k] = sum % Base],
                                carry |-> sum \div Base]}})

RECURSIVE schoolbook_outer(_, _, _, _, _)
schoolbook_outer(x, y, res, i, n) ==
    IF i >= n THEN res
    ELSE LET r1 == schoolbook_inner(x, y, res, i, 0, 0, n)
             r2 == schoolbook_carry(r1.result, i + n, r1.carry, 2 * n)
         IN TheOnly({schoolbook_outer(x, y, row.result, i + 1, n) : row \in {r2}})

neon_schoolbook_mul(x, y, n) == schoolbook_outer(x, y, ZeroLimbs(2 * n), 0, n)

\* mutant: the carry out of the low-word addition is not added to hi
RECURSIVE reduce_inner_no_sum_carry(_, _, _, _, _, _, _)
reduce_inner_no_sum_carry(tt, m, md, i, j, carry, n) ==
    IF j >= n THEN [t |-> tt, carry |-> carry]
    ELSE LET p == mul64_neon(m, md[j])
             sum == tt[i + j] + p.lo + carry
         IN reduce_inner_no_sum_carry([tt EXCEPT ![i + j] = sum % Base], m, md, i, j + 1,
                                      p.hi, n)

RECURSIVE reduce_inner(_, _, _, _, _, _, _)
reduce_inner(tt, m, md, i, j, carry, n) ==
    IF j >= n THEN [t |-> tt, carry |-> carry]
    ELSE LET p == mul64_neon(m, md[j])
             sum == tt[i + j] + p.lo + carry
         IN TheOnly({reduce_inner(s.t, m, md, i, j + 1, s.carry, n) :
                        s \in {[t |-> [tt EXCEPT ![i + j] = sum % Base],
                                carry |-> (p.hi + (sum \div Base)) % Base]}})

RECURSIVE reduce_carry(_, _, _, _)
reduce_carry(tt, k, carry, limit) ==
    IF carry = 0 \/ k >= limit THEN [t |-> tt, carry |-> carry, k |-> k]
    ELSE LET sum == tt[k] + carry
         IN TheOnly({reduce_carry(s.t, k + 1, s.carry, limit) :
                        s \in {[t |-> [tt EXCEPT ![k] = sum % Base], carry |-> sum \div Base]}})

RECURSIVE reduce_outer(_, _, _, _, _)
reduce_outer(tt, md, m_u, i, n) ==
    IF i >= n THEN tt
    ELSE LET m == (tt[i] * m_u) % Base
             r1 == reduce_inner(tt, m, md, i, 0, 0, n)
             r2 == reduce_carry(r1.t, i + n, r1.carry, 2 * n)
         IN TheOnly({reduce_outer(row.t, md, m_u, i + 1, n) : row \in {r2}})

\* mutant: the upper half is returned without the conditional subtraction
final_reduction_no_subtract(tt, md, n) == Slice(tt, n, n)

\* final reduction shared textually by both builds: copy the upper half, subtract once
final_reduction(tt, md, n) ==
    TheOnly({IF compare_limbs(upper, md, n) >= 0
             THEN sub_with_borrow(upper, md, n).result
             ELSE upper : upper \in {Slice(tt, n, n)}})

neon_montgomery_reduce(tt, md, m_u, n) ==
    TheOnly({[t |-> tr, result |-> final_reduction(tr, md, n)] :
                tr \in {reduce_outer(t0, md, m_u, 0, n) : t0 \in {tt}}})

(***************************************************************************)
(* Scalar build: the fallback bodies of neon_montgomery_mul_4limb/_6limb   *)
(***************************************************************************)
RECURSIVE scalar_mul_inner(_, _, _, _, _, _, _)
scalar_mul_inner(x, y, tt, i, j, carry, n) ==
    IF j >= n THEN [t |-> tt, carry |-> carry]
    ELSE LET product == x[i] * y[j] + tt[i + j] + carry
         IN TheOnly({scalar_mul_inner(x, y, s.t, i, j + 1, s.carry, n) :
                        s \in {[t |-> [tt EXCEPT ![i + j] = product % Base],
                                carry |-> (product \div Base) % Base]}})

RECURSIVE scalar_mul_outer(_, _, _, _, _)
scalar_mul_outer(x, y, tt, i, n) ==
    IF i >= n THEN tt
    ELSE LET r == scalar_mul_inner(x, y, tt, i, 0, 0, n)
         IN TheOnly({scalar_mul_outer(x, y, row, i + 1, n) :
                        row \in {[r.t EXCEPT ![i + n] = r.carry]}})

RECURSIVE scalar_reduce_inner(_, _, _, _, _, _, _)
scalar_reduce_inner(tt, m, md, i, j, carry, n) ==
    IF j >= n THEN [t |-> tt, carry |-> carry]
    ELSE LET product == m * md[j] + tt[i + j] + carry
         IN TheOnly({scalar_reduce_inner(s.t, m, md, i, j + 1, s.carry, n) :
                        s \in {[t |-> [tt EXCEPT ![i + j] = product % Base],
                                carry |-> (product \div Base) % Base]}})

\* mutant: the carry is added to one limb only
scalar_reduce_carry_one_step(tt, k, carry, limit) ==
    IF ~(k < limit /\ carry # 0) THEN [t |-> tt, carry |-> carry, k |-> k]
    ELSE [t |-> [tt EXCEPT ![k] = (tt[k] + carry) % Base], carry |-> (tt[k] + carry) \div Base,
          k |-> k + 1]

\* for (k = i + n; k < 2n && carry; k++)
RECURSIVE scalar_reduce_carry(_, _, _, _)
scalar_reduce_carry(tt, k, carry, limit) ==
    IF ~(k < limit /\ carry # 0) THEN [t |-> tt, carry |-> carry, k |-> k]
    ELSE LET sum == tt[k] + carry
         IN TheOnly({scalar_reduce_carry(s.t, k + 1, s.carry, limit) :
                        s \in {[t |-> [tt EXCEPT ![k] = sum % Base], carry |-> sum \div Base]}})

RECURSIVE scalar_reduce_outer(_, _, _, _, _, _)
scalar_reduce_outer(tt, md, m_u, i, n, tn) ==
    IF i >= n THEN tt
    ELSE LET m == (tt[i] * m_u) % Base
             r1 == scalar_reduce_inner(tt, m, md, i, 0, 0, n)
             r2 == scalar_reduce_carry(r1.t, i + n, r1.carry, tn)
         IN TheOnly({scalar_reduce_outer(row.t, md, m_u, i + 1, n, tn) : row \in {r2}})

scalar_montgomery_mul(x, y, md, m_u, n, tn) ==
    TheOnly({[t |-> tr, result |-> final_reduction(tr, md, n)] :
                tr \in {scalar_reduce_outer(t0, md, m_u, 0, n, tn) :
                           t0 \in {scalar_mul_outer(x, y, ZeroLimbs(tn), 0, n)}}})

(***************************************************************************)
(* Entry points                                                            *)
(***************************************************************************)
neon_montgomery_mul_4limb(neon, x, y, md, m_u) ==
    IF neon
    THEN neon_montgomery_reduce(neon_schoolbook_mul(x, y, 4), md, m_u, 4)
    ELSE scalar_montgomery_mul(x, y, md, m_u, 4, 8)

neon_montgomery_mul_6limb(neon, x, y, md, m_u) ==
    IF neon
    THEN neon_montgomery_reduce(neon_schoolbook_mul(x, y, 6), md, m_u, 6)
    ELSE scalar_montgomery_mul(x, y, md, m_u, 6, 12)

(***************************************************************************)
(* Inputs                                                                  *)
(***************************************************************************)
RModulus(n) == RadixPow(n)

\* odd moduli near 0, near R/2 (both sides) and near R
ModulusVals(n) ==
    LET R == RModulus(n)
    IN {2 * k + 1 : k \in 0..(ModWidth - 1)}
         \cup {R - 1 - 2 * k : k \in 0..(ModWidth - 1)}
         \cup {R \div 2 + 1 + 2 * k : k \in 0..(ModWidth \div 2)}
         \cup {R \div 2 - 1 - 2 * k : k \in 0..(ModWidth \div 2)}

\* reduced operands near 0, near the modulus, and the Montgomery form of 1
OperandVals(m, n) ==
    {v \in (0..(EdgeWidth - 1)) \cup ((m - EdgeWidth)..(m - 1)) \cup {RModulus(n) % m} :
        0 <= v /\ v < m}

\* mu = -m^(-1) mod 2^64 (cpu_accelerate.h:180), for an odd m
MuFor(m) == CHOOSE x \in 0..(Base - 1) : (x * (m % Base) + 1) % Base = 0

InitMont ==
    \E n \in {4, 6} :
    \E m \in ModulusVals(n) :
    \E av \in OperandVals(m, n), bv \in OperandVals(m, n) :
        /\ op = (IF n = 4 THEN "mul4" ELSE "mul6")
        /\ pc = "call"
        /\ HostIdle
        /\ NEON_AVAILABLE \in BOOLEAN
        /\ limb_count = n
        /\ count = 1
        /\ a = ToLimbs(av, n)
        /\ b = ToLimbs(bv, n)
        /\ modulus = ToLimbs(m, n)
        /\ mu = MuFor(m)
        /\ t = FillLimbs(2 * n, Base - 1)
        /\ result = FillLimbs(n, Base - 1)
        /\ mul_calls = 0
        /\ helper_ret = 0
        /\ BucketIdle
        /\ VdspIdle

Mul4 ==
    /\ pc = "call" /\ op = "mul4"
    /\ \E r \in {neon_montgomery_mul_4limb(NEON_AVAILABLE, a, b, modulus, mu)} :
          /\ t' = r.t
          /\ result' = r.result
    /\ pc' = "done"
    /\ mul_calls' = mul_calls + 1
    /\ UNCHANGED <<op, host_vars, NEON_AVAILABLE, limb_count, count, a, b, modulus, mu, helper_ret,
                   bucket_vars, vdsp_vars>>

Mul6 ==
    /\ pc = "call" /\ op = "mul6"
    /\ \E r \in {neon_montgomery_mul_6limb(NEON_AVAILABLE, a, b, modulus, mu)} :
          /\ t' = r.t
          /\ result' = r.result
    /\ pc' = "done"
    /\ mul_calls' = mul_calls + 1
    /\ UNCHANGED <<op, host_vars, NEON_AVAILABLE, limb_count, count, a, b, modulus, mu, helper_ret,
                   bucket_vars, vdsp_vars>>

NextMont == Mul4 \/ Mul6

SpecMont == InitMont /\ [][NextMont]_vars

(***************************************************************************)
(* The same entry points on arbitrary inputs: operands that need not be    *)
(* below the modulus, any modulus (even ones and zero included), any mu.   *)
(***************************************************************************)
AnyModulusVals(n) == ModulusVals(n) \cup {0, 2, RModulus(n) \div 2, RModulus(n) - 2}
AnyOperandVals(n) ==
    {0, 1, Base - 1, RModulus(n) \div 2 + 1, RModulus(n) - 2, RModulus(n) - 1}

InitMontAny ==
    \E n \in {4, 6} :
    \E m \in AnyModulusVals(n) :
    \E av \in AnyOperandVals(n), bv \in AnyOperandVals(n) :
    \E m_u \in 0..(Base - 1) :
        /\ op = (IF n = 4 THEN "mul4" ELSE "mul6")
        /\ pc = "call"
        /\ HostIdle
        /\ NEON_AVAILABLE \in BOOLEAN
        /\ limb_count = n
        /\ count = 1
        /\ a = ToLimbs(av, n)
        /\ b = ToLimbs(bv, n)
        /\ modulus = ToLimbs(m, n)
        /\ mu = m_u
        /\ t = FillLimbs(2 * n, Base - 1)
        /\ result = FillLimbs(n, Base - 1)
        /\ mul_calls = 0
        /\ helper_ret = 0
        /\ BucketIdle
        /\ VdspIdle

SpecMontAny == InitMontAny /\ [][NextMont]_vars


(***************************************************************************)
(* The limb primitives called on their own, neon_montgomery.cc:38-86       *)
(***************************************************************************)
\* n-limb values near 0, near the top, and on both sides of every limb boundary
LimbVals(n) ==
    LET R == RadixPow(n)
    IN {v \in (0..(EdgeWidth - 1)) \cup ((R - EdgeWidth)..(R - 1))
                \cup {RadixPow(k) - 1 : k \in 1..n} \cup {RadixPow(k) : k \in 1..(n - 1)}
                \cup {RadixPow(k) + 1 : k \in 1..(n - 1)}
                \cup {R - RadixPow(k) : k \in 1..(n - 1)} :
          0 <= v /\ v < R}

InitLimb ==
    \E n \in {4, 6}, o \in {"add", "sub", "cmp"} :
    \E av \in LimbVals(n), bv \in LimbVals(n) :
        /\ op = o
        /\ pc = "call"
        /\ HostIdle
        /\ NEON_AVAILABLE = FALSE
        /\ limb_count = n
        /\ count = 1
        /\ a = ToLimbs(av, n)
        /\ b = ToLimbs(bv, n)
        /\ modulus = << >>
        /\ mu = 0
        /\ t = << >>
        /\ result = FillLimbs(n, Base - 1)
        /\ mul_calls = 0
        /\ helper_ret = 0
        /\ BucketIdle
        /\ VdspIdle

AddCall ==
    /\ pc = "call" /\ op = "add"
    /\ \E r \in {add_with_carry(a, b, limb_count)} :
          /\ result' = r.result
          /\ helper_ret' = r.carry
    /\ pc' = "done"
    /\ UNCHANGED <<op, host_vars, NEON_AVAILABLE, limb_count, count, a, b, modulus, mu, t, mul_calls,
                   bucket_vars, vdsp_vars>>

SubCall ==
    /\ pc = "call" /\ op = "sub"
    /\ \E r \in {sub_with_borrow(a, b, limb_count)} :
          /\ result' = r.result
          /\ helper_ret' = r.borrow
    /\ pc' = "done"
    /\ UNCHANGED <<op, host_vars, NEON_AVAILABLE, limb_count, count, a, b, modulus, mu, t, mul_calls,
                   bucket_vars, vdsp_vars>>

CmpCall ==
    /\ pc = "call" /\ op = "cmp"
    /\ helper_ret' = compare_limbs(a, b, limb_count)
    /\ pc' = "done"
    /\ UNCHANGED <<op, host_vars, NEON_AVAILABLE, limb_count, count, a, b, modulus, mu, t, result,
                   mul_calls, bucket_vars, vdsp_vars>>

NextLimb == AddCall \/ SubCall \/ CmpCall

SpecLimb == InitLimb /\ [][NextLimb]_vars


(***************************************************************************)
(* neon_batch_montgomery_mul, neon_montgomery.cc:325-360                   *)
(***************************************************************************)
\* results + off .. results + off + n - 1 := x
WriteAt(buf, off, x, n) ==
    [k \in DOMAIN buf |-> IF off <= k /\ k < off + n THEN x[k - off] ELSE buf[k]]

\* mutant: element i is read at a + i instead of a + i * 4
RECURSIVE batch_loop_4_bad_stride(_, _, _, _, _, _, _, _, _)
batch_loop_4_bad_stride(neon, x, y, md, m_u, results, cnt, i, tt) ==
    IF i >= cnt THEN [results |-> results, t |-> tt, muls |-> i]
    ELSE LET r == neon_montgomery_mul_4limb(neon, Slice(x, i, 4), Slice(y, i, 4), md, m_u)
         IN batch_loop_4_bad_stride(neon, x, y, md, m_u, WriteAt(results, i * 4, r.result, 4),
                                    cnt, i + 1, r.t)

\* mutant: the loop stops one element early
RECURSIVE batch_loop_4_one_short(_, _, _, _, _, _, _, _, _)
batch_loop_4_one_short(neon, x, y, md, m_u, results, cnt, i, tt) ==
    IF i >= cnt - 1 THEN [results |-> results, t |-> tt, muls |-> i]
    ELSE LET r == neon_montgomery_mul_4limb(neon, Slice(x, i * 4, 4), Slice(y, i * 4, 4), md, m_u)
         IN batch_loop_4_one_short(neon, x, y, md, m_u, WriteAt(results, i * 4, r.result, 4),
                                   cnt, i + 1, r.t)

RECURSIVE batch_loop_4(_, _, _, _, _, _, _, _, _)
batch_loop_4(neon, x, y, md, m_u, results, cnt, i, tt) ==
    IF i >= cnt THEN [results |-> results, t |-> tt, muls |-> i]
    ELSE TheOnly({batch_loop_4(neon, x, y, md, m_u, WriteAt(results, i * 4, r.result, 4),
                                  cnt, i + 1, r.t) :
                     r \in {neon_montgomery_mul_4limb(neon, Slice(x, i * 4, 4),
                                                      Slice(y, i * 4, 4), md, m_u)}})

RECURSIVE batch_loop_6(_, _, _, _, _, _, _, _, _)
batch_loop_6(neon, x, y, md, m_u, results, cnt, i, tt) ==
    IF i >= cnt THEN [results |-> results, t |-> tt, muls |-> i]
    ELSE TheOnly({batch_loop_6(neon, x, y, md, m_u, WriteAt(results, i * 6, r.result, 6),
                                  cnt, i + 1, r.t) :
                     r \in {neon_montgomery_mul_6limb(neon, Slice(x, i * 6, 6),
                                                      Slice(y, i * 6, 6), md, m_u)}})

\* int -> size_t conversion: a negative int wraps modulo 2^SizeBits
ToSizeT(i) == i % SizeMod

\* memset(results, 0, count * limb_count * sizeof(uint64_t)): the byte length is
\* computed in size_t; `overrun` when it exceeds the caller's buffer
memset_results(results, cnt, n) ==
    LET nbytes == (((cnt * ToSizeT(n)) % SizeMod) * 8) % SizeMod
        capacity == 8 * Cardinality(DOMAIN results)
    IN [results |-> [k \in DOMAIN results |-> IF 8 * k < nbytes THEN 0 ELSE results[k]],
        overrun |-> nbytes > capacity]

neon_batch_montgomery_mul(neon, x, y, md, m_u, results, cnt, n, tt) ==
    IF n = 4 THEN
        TheOnly({[results |-> r.results, t |-> r.t, muls |-> r.muls, overrun |-> FALSE] :
                    r \in {batch_loop_4(neon, x, y, md, m_u, results, cnt, 0, tt)}})
    ELSE IF n = 6 THEN
        TheOnly({[results |-> r.results, t |-> r.t, muls |-> r.muls, overrun |-> FALSE] :
                    r \in {batch_loop_6(neon, x, y, md, m_u, results, cnt, 0, tt)}})
    ELSE
        LET r == memset_results(results, cnt, n)
        IN [results |-> r.results, t |-> tt, muls |-> 0, overrun |-> r.overrun]

BatchOperandVals(m, n) == {v \in {1, m - 1, RModulus(n) % m} : 0 <= v /\ v < m}
BatchSecondVals(m, n) == {v \in {m - 1, RModulus(n) % m} : 0 <= v /\ v < m}

\* the flat array holding element e[i] at limbs [i*n, (i+1)*n)
Flat(e, cnt, n) == [k \in 0..(cnt * n - 1) |-> ToLimbs(e[k \div n], n)[k % n]]

Max0(n) == IF n < 0 THEN 0 ELSE n

InitBatch ==
    \E n \in (0 - MaxNegLimbCount)..MaxLimbCount :
    \E c \in 0..MaxCount :
        /\ op = "batch"
        /\ pc = "call"
        /\ HostIdle
        /\ NEON_AVAILABLE \in BOOLEAN
        /\ limb_count = n
        /\ count = c
        /\ IF n \in {4, 6}
           THEN \E m \in ModulusVals(n) :
                \E av \in [0..(c - 1) -> BatchOperandVals(m, n)],
                   bv \in [0..(c - 1) -> BatchSecondVals(m, n)] :
                    /\ a = Flat(av, c, n)
                    /\ b = Flat(bv, c, n)
                    /\ modulus = ToLimbs(m, n)
                    /\ mu = MuFor(m)
           ELSE /\ a = FillLimbs(c * Max0(n), 1)
                /\ b = FillLimbs(c * Max0(n), 1)
                /\ modulus = FillLimbs(Max0(n), Base - 1)
                /\ mu = 1
        /\ t = << >>
        \* the caller's output buffer, count*limb_count limbs of earlier content
        /\ \E g \in {1, Base - 1} : result = FillLimbs(c * Max0(n), g)
        /\ mul_calls = 0
        /\ helper_ret = 0
        /\ BucketIdle
        /\ VdspIdle

\* a memset running past the buffer is undefined: the call may fault or return
Batch ==
    /\ pc = "call" /\ op = "batch"
    /\ \E r \in {neon_batch_montgomery_mul(NEON_AVAILABLE, a, b, modulus, mu, result,
                                           count, limb_count, t)} :
          /\ result' = r.results
          /\ t' = r.t
          /\ mul_calls' = r.muls
          /\ IF r.overrun THEN pc' \in {"done", "fault"} ELSE pc' = "done"
    /\ UNCHANGED <<op, host_vars, NEON_AVAILABLE, limb_count, count, a, b, modulus, mu, helper_ret,
                   bucket_vars, vdsp_vars>>

NextBatch == Batch

SpecBatch == InitBatch /\ [][NextBatch]_vars

(***************************************************************************)
(* Bucket accumulation: sme_ops.cc:35-140 and blas_ops.cc:141-232.         *)
(* Coordinates are doubles in the source; the model uses integers          *)
(* (integral coordinate data, on which double addition is exact).          *)
(***************************************************************************)
DenseMaxBuckets == 1024
DenseMaxPoints == 4096

RECURSIVE BitAnd(_, _)
BitAnd(x, y) ==
    IF x = 0 \/ y = 0 THEN 0
    ELSE (x % 2) * (y % 2) + 2 * BitAnd(x \div 2, y \div 2)

Zeros(n) == [k \in 0..(n - 1) |-> 0]
SetAt(buf, k, v) == [j \in DOMAIN buf |-> IF j = k THEN v ELSE buf[j]]
AddAt(buf, k, v) == [j \in DOMAIN buf |-> IF j = k THEN buf[j] + v ELSE buf[j]]

\* cblas_dgemv(CblasRowMajor, CblasTrans, M, N, alpha, A, lda, X, 1, beta, Y, 1):
\* Y[j] = alpha * sum_i A[i*lda + j] * X[i] + beta * Y[j] for j < N
RECURSIVE dgemv_column(_, _, _, _, _, _)
dgemv_column(A, lda, X, j, i, M) ==
    IF i >= M THEN 0 ELSE A[i * lda + j] * X[i] + dgemv_column(A, lda, X, j, i + 1, M)

cblas_dgemv_trans(M, N, alpha, A, lda, X, beta, Y) ==
    [j \in DOMAIN Y |-> IF j < N THEN alpha * dgemv_column(A, lda, X, j, 0, M) + beta * Y[j]
                        ELSE Y[j]]

sme_available(checked, available, hw) ==
    IF checked THEN [ret |-> available, checked |-> checked, available |-> available]
    ELSE [ret |-> hw, checked |-> TRUE, available |-> hw]

RECURSIVE sme_fill_indicator(_, _, _, _, _, _)
sme_fill_indicator(indicator, sc, bucket_mask, i, n, nb) ==
    IF i >= n THEN indicator
    ELSE LET bucket_idx == BitAnd(sc[i], bucket_mask)
         IN sme_fill_indicator(
                IF bucket_idx > 0 /\ bucket_idx <= nb
                THEN SetAt(indicator, i * nb + (bucket_idx - 1), 1) ELSE indicator,
                sc, bucket_mask, i + 1, n, nb)

RECURSIVE sme_direct_loop(_, _, _, _, _, _, _, _)
sme_direct_loop(bk, wr, sc, pts, bucket_mask, i, n, nb) ==
    IF i >= n THEN [buckets |-> bk, writes |-> wr]
    ELSE LET bucket_idx == BitAnd(sc[i], bucket_mask)
         IN IF bucket_idx > 0 /\ bucket_idx <= nb
            THEN sme_direct_loop(AddAt(bk, bucket_idx - 1, pts[i]), wr \cup {bucket_idx - 1},
                                 sc, pts, bucket_mask, i + 1, n, nb)
            ELSE sme_direct_loop(bk, wr, sc, pts, bucket_mask, i + 1, n, nb)

sme_bucket_outer_product(apple, fail, checked, available, hw, sc, pts, bk, n, nb, w) ==
    IF apple THEN
        IF fail = 0 THEN
            \* indicator == NULL: return false
            [buckets |-> bk, writes |-> {}, path |-> "none", ret |-> FALSE,
             checked |-> checked, available |-> available]
        ELSE
            LET bucket_mask == Pow2(w) - 1
                indicator == sme_fill_indicator(Zeros(n * nb), sc, bucket_mask, 0, n, nb)
                sa == sme_available(checked, available, hw)
            IN [buckets |-> cblas_dgemv_trans(n, nb, 1, indicator, nb, pts, 1, bk),
                writes |-> IF n > 0 THEN 0..(nb - 1) ELSE {},
                path |-> "dense", ret |-> sa.ret,
                checked |-> sa.checked, available |-> sa.available]
    ELSE
        LET r == sme_direct_loop(bk, {}, sc, pts, Pow2(w) - 1, 0, n, nb)
        IN [buckets |-> r.buckets, writes |-> r.writes, path |-> "direct", ret |-> FALSE,
            checked |-> checked, available |-> available]

\* mutant: the indicator row stride is num_points instead of num_buckets
RECURSIVE blas_fill_indicator_bad_stride(_, _, _, _, _)
blas_fill_indicator_bad_stride(indicator, idx, i, np, nb) ==
    IF i >= np THEN indicator
    ELSE blas_fill_indicator_bad_stride(
             IF idx[i] < nb THEN SetAt(indicator, i * np + idx[i], 1) ELSE indicator,
             idx, i + 1, np, nb)

RECURSIVE blas_fill_indicator(_, _, _, _, _)
blas_fill_indicator(indicator, idx, i, np, nb) ==
    IF i >= np THEN indicator
    ELSE blas_fill_indicator(
             IF idx[i] < nb THEN SetAt(indicator, i * nb + idx[i], 1) ELSE indicator,
             idx, i + 1, np, nb)

\* for (b = 0; b < num_buckets; b++) bucket_accum[b * coord_size + c] += bucket_col[b]
RECURSIVE blas_add_column(_, _, _, _, _, _, _)
blas_add_column(bk, wr, bucket_col, bb, nb, c, cs) ==
    IF bb >= nb THEN [buckets |-> bk, writes |-> wr]
    ELSE blas_add_column(AddAt(bk, bb * cs + c, bucket_col[bb]), wr \cup {bb * cs + c},
                         bucket_col, bb + 1, nb, c, cs)

\* the loop over coordinate columns; allocations 1 + 2c and 2 + 2c are point_col
\* and bucket_col of column c, and either one failing leaves the loop for fallback
RECURSIVE blas_dense_columns(_, _, _, _, _, _, _, _, _)
blas_dense_columns(bk, wr, indicator, pts, c, np, nb, cs, fail) ==
    IF c >= cs THEN [buckets |-> bk, writes |-> wr, completed |-> TRUE, columns |-> c]
    ELSE IF fail \in {1 + 2 * c, 2 + 2 * c}
    THEN [buckets |-> bk, writes |-> wr, completed |-> FALSE, columns |-> c]
    ELSE LET point_col == [i \in 0..(np - 1) |-> pts[i * cs + c]]
             bucket_col == cblas_dgemv_trans(np, nb, 1, indicator, nb, point_col, 0, Zeros(nb))
             r == blas_add_column(bk, wr, bucket_col, 0, nb, c, cs)
         IN blas_dense_columns(r.buckets, r.writes, indicator, pts, c + 1, np, nb, cs, fail)

RECURSIVE blas_direct_coords(_, _, _, _, _, _, _)
blas_direct_coords(bk, wr, bucket, pts, i, c, cs) ==
    IF c >= cs THEN [buckets |-> bk, writes |-> wr]
    ELSE blas_direct_coords(AddAt(bk, bucket * cs + c, pts[i * cs + c]),
                            wr \cup {bucket * cs + c}, bucket, pts, i, c + 1, cs)

\* mutant: the range check admits bucket == num_buckets
RECURSIVE blas_direct_loop_off_by_one(_, _, _, _, _, _, _, _)
blas_direct_loop_off_by_one(bk, wr, idx, pts, i, np, nb, cs) ==
    IF i >= np THEN [buckets |-> bk, writes |-> wr]
    ELSE IF idx[i] <= nb
    THEN LET r == blas_direct_coords(bk, wr, idx[i], pts, i, 0, cs)
         IN blas_direct_loop_off_by_one(r.buckets, r.writes, idx, pts, i + 1, np, nb, cs)
    ELSE blas_direct_loop_off_by_one(bk, wr, idx, pts, i + 1, np, nb, cs)

\* mutant: the index is read as a 1-based digit (0 skipped, d to slot d - 1)
RECURSIVE blas_direct_loop_one_based(_, _, _, _, _, _, _, _)
blas_direct_loop_one_based(bk, wr, idx, pts, i, np, nb, cs) ==
    IF i >= np THEN [buckets |-> bk, writes |-> wr]
    ELSE IF idx[i] > 0 /\ idx[i] <= nb
    THEN LET r == blas_direct_coords(bk, wr, idx[i] - 1, pts, i, 0, cs)
         IN blas_direct_loop_one_based(r.buckets, r.writes, idx, pts, i + 1, np, nb, cs)
    ELSE blas_direct_loop_one_based(bk, wr, idx, pts, i + 1, np, nb, cs)

RECURSIVE blas_direct_loop(_, _, _, _, _, _, _, _)
blas_direct_loop(bk, wr, idx, pts, i, np, nb, cs) ==
    IF i >= np THEN [buckets |-> bk, writes |-> wr]
    ELSE IF idx[i] < nb
    THEN LET r == blas_direct_coords(bk, wr, idx[i], pts, i, 0, cs)
         IN blas_direct_loop(r.buckets, r.writes, idx, pts, i + 1, np, nb, cs)
    ELSE blas_direct_loop(bk, wr, idx, pts, i + 1, np, nb, cs)

blas_bucket_accumulate(apple, fail, idx, pts, bk, np, nb, cs) ==
    IF nb <= DenseMaxBuckets /\ np <= DenseMaxPoints /\ apple /\ fail # 0 THEN
        LET indicator == blas_fill_indicator(Zeros(np * nb), idx, 0, np, nb)
            d == blas_dense_columns(bk, {}, indicator, pts, 0, np, nb, cs, fail)
        IN IF d.completed
           THEN [buckets |-> d.buckets, writes |-> d.writes, path |-> "dense"]
           ELSE LET f == blas_direct_loop(d.buckets, d.writes, idx, pts, 0, np, nb, cs)
                IN [buckets |-> f.buckets, writes |-> f.writes,
                    path |-> IF d.columns = 0 THEN "direct" ELSE "dense+direct"]
    ELSE
        LET f == blas_direct_loop(bk, {}, idx, pts, 0, np, nb, cs)
        IN [buckets |-> f.buckets, writes |-> f.writes, path |-> "direct"]

RECURSIVE Power(_, _)
Power(x, n) == IF n <= 0 THEN 1 ELSE x * Power(x, n - 1)

\* distinct integral coordinates, and the two kinds of earlier bucket content
PointCoords(n) == [k \in 0..(n - 1) |-> Power(4, k)]
BucketContents(n) == {Zeros(n), [k \in 0..(n - 1) |-> 0 - (k + 1)]}

\* which allocation returns NULL: none (-1), or the one with this index in call order
AllocChoices(apple, nallocs) == IF apple THEN (-1)..(nallocs - 1) ELSE {-1}

InitSme ==
    \E np \in 0..MaxPoints, nb \in 0..MaxBuckets, w \in 0..MaxWindow :
    \E sc \in [0..(np - 1) -> 0..MaxScalar] :
    \E b0 \in BucketContents(nb) :
    \E apple \in BOOLEAN :
        /\ op = "sme"
        /\ pc = "call"
        /\ HostIdle
        /\ MontIdle
        /\ VdspIdle
        /\ APPLE = apple
        /\ has_sme \in (IF apple THEN BOOLEAN ELSE {FALSE})
        /\ g_sme_checked = FALSE /\ g_sme_available = FALSE
        /\ scalars = sc /\ bucket_indices = << >>
        /\ points = PointCoords(np)
        /\ buckets = b0 /\ buckets0 = b0
        /\ num_points = np /\ num_buckets = nb /\ coord_size = 1 /\ window_size = w
        /\ alloc_fail \in AllocChoices(apple, 1)
        /\ path = "none" /\ ret = FALSE /\ writes = {}

InitBlas ==
    \E np \in 0..MaxPoints, nb \in 0..MaxBuckets, cs \in 1..MaxCoordSize :
    \E idx \in [0..(np - 1) -> 0..MaxIndex] :
    \E b0 \in BucketContents(nb * cs) :
    \E apple \in BOOLEAN :
        /\ op = "blas"
        /\ pc = "call"
        /\ HostIdle
        /\ MontIdle
        /\ VdspIdle
        /\ APPLE = apple
        /\ has_sme = FALSE
        /\ g_sme_checked = FALSE /\ g_sme_available = FALSE
        /\ scalars = << >> /\ bucket_indices = idx
        /\ points = PointCoords(np * cs)
        /\ buckets = b0 /\ buckets0 = b0
        /\ num_points = np /\ num_buckets = nb /\ coord_size = cs /\ window_size = 0
        /\ alloc_fail \in AllocChoices(apple, 1 + 2 * cs)
        /\ path = "none" /\ ret = FALSE /\ writes = {}

\* the scenario of the specification, section 8: five points, three buckets
ScenarioKeys == (0 :> 1) @@ (1 :> 0) @@ (2 :> 2) @@ (3 :> 3) @@ (4 :> 1)
ScenarioCoords == (0 :> 10) @@ (1 :> 20) @@ (2 :> 30) @@ (3 :> 40) @@ (4 :> 50)

InitScenario ==
    \E apple \in BOOLEAN, o \in {"sme", "blas"} :
        /\ op = o
        /\ pc = "call"
        /\ HostIdle
        /\ MontIdle
        /\ VdspIdle
        /\ APPLE = apple
        /\ has_sme = FALSE
        /\ g_sme_checked = FALSE /\ g_sme_available = FALSE
        /\ scalars = (IF o = "sme" THEN ScenarioKeys ELSE << >>)
        /\ bucket_indices = (IF o = "blas" THEN ScenarioKeys ELSE << >>)
        /\ points = ScenarioCoords
        /\ buckets = Zeros(3) /\ buckets0 = Zeros(3)
        /\ num_points = 5 /\ num_buckets = 3 /\ coord_size = 1
        /\ window_size = (IF o = "sme" THEN 2 ELSE 0)
        /\ alloc_fail \in AllocChoices(apple, IF o = "sme" THEN 1 ELSE 3)
        /\ path = "none" /\ ret = FALSE /\ writes = {}

InitBucket == InitSme \/ InitBlas \/ InitScenario

SmeCall ==
    /\ pc = "call" /\ op = "sme"
    /\ \E r \in {sme_bucket_outer_product(APPLE, alloc_fail, g_sme_checked, g_sme_available,
                                          has_sme, scalars, points, buckets, num_points,
                                          num_buckets, window_size)} :
          /\ buckets' = r.buckets
          /\ writes' = r.writes
          /\ path' = r.path
          /\ ret' = r.ret
          /\ g_sme_checked' = r.checked
          /\ g_sme_available' = r.available
    /\ pc' = "done"
    /\ UNCHANGED <<op, host_vars, mont_vars, vdsp_vars, APPLE, has_sme, scalars, bucket_indices, points, buckets0,
                   num_points, num_buckets, coord_size, window_size, alloc_fail>>

BlasCall ==
    /\ pc = "call" /\ op = "blas"
    /\ \E r \in {blas_bucket_accumulate(APPLE, alloc_fail, bucket_indices, points, buckets,
                                        num_points, num_buckets, coord_size)} :
          /\ buckets' = r.buckets
          /\ writes' = r.writes
          /\ path' = r.path
    /\ pc' = "done"
    /\ UNCHANGED <<op, host_vars, mont_vars, vdsp_vars, APPLE, has_sme, g_sme_checked, g_sme_available, scalars,
                   bucket_indices, points, buckets0, num_points, num_buckets, coord_size,
                   window_size, alloc_fail, ret>>

NextBucket == SmeCall \/ BlasCall

SpecBucket == InitBucket /\ [][NextBucket]_vars

(***************************************************************************)
(* vdsp_ntt_butterfly_f64, vdsp_ops.cc:112-156.  A pointer is the address  *)
(* (name) of a buffer and m maps each address to the buffer's content, so  *)
(* that two pointer arguments may name the same buffer.  A state st is     *)
(* [mem, reads]: the memory and the addresses loaded from so far.          *)
(* Doubles are modelled by integers (integral data, exact in double).      *)
(***************************************************************************)
Load(st, A, i) == st.mem[A][i]
Store(st, loaded, C, i, v) ==
    [mem |-> [st.mem EXCEPT ![C][i] = v], reads |-> st.reads \cup loaded]

\* vDSP_vmulD(A, 1, B, 1, C, 1, N): C[i] = A[i] * B[i]
RECURSIVE vDSP_vmulD(_, _, _, _, _, _)
vDSP_vmulD(st, A, B, C, N, i) ==
    IF i >= N THEN st
    ELSE TheOnly({vDSP_vmulD(s, A, B, C, N, i + 1) :
                     s \in {Store(st, {A, B}, C, i, Load(st, A, i) * Load(st, B, i))}})

\* vDSP_vaddD(A, 1, B, 1, C, 1, N): C[i] = A[i] + B[i]
RECURSIVE vDSP_vaddD(_, _, _, _, _, _)
vDSP_vaddD(st, A, B, C, N, i) ==
    IF i >= N THEN st
    ELSE TheOnly({vDSP_vaddD(s, A, B, C, N, i + 1) :
                     s \in {Store(st, {A, B}, C, i, Load(st, A, i) + Load(st, B, i))}})

\* mutant: the first vector is the minuend
RECURSIVE vDSP_vsubD_first_minus_second(_, _, _, _, _, _)
vDSP_vsubD_first_minus_second(st, B, A, C, N, i) ==
    IF i >= N THEN st
    ELSE vDSP_vsubD_first_minus_second(
             Store(st, {A, B}, C, i, Load(st, B, i) - Load(st, A, i)), B, A, C, N, i + 1)

\* vDSP_vsubD(B, 1, A, 1, C, 1, N): C[i] = A[i] - B[i]; the vector passed
\* first is the one subtracted (vdsp_ops.cc:55-57)
RECURSIVE vDSP_vsubD(_, _, _, _, _, _)
vDSP_vsubD(st, B, A, C, N, i) ==
    IF i >= N THEN st
    ELSE TheOnly({vDSP_vsubD(s, B, A, C, N, i + 1) :
                     s \in {Store(st, {A, B}, C, i, Load(st, A, i) - Load(st, B, i))}})

\* mutant: the scalar loop computes out_odd as t - in_even
RECURSIVE butterfly_scalar_loop_swapped(_, _, _, _, _, _, _, _)
butterfly_scalar_loop_swapped(st, ie, io, twr, oe, oo, N, i) ==
    IF i >= N THEN st
    ELSE LET tt == Load(st, twr, i) * Load(st, io, i)
             s1 == Store(st, {twr, io, ie}, oe, i, Load(st, ie, i) + tt)
             s2 == Store(s1, {ie}, oo, i, tt - Load(s1, ie, i))
         IN butterfly_scalar_loop_swapped(s2, ie, io, twr, oe, oo, N, i + 1)

\* for (i = 0; i < n; i++) { t = twiddle_real[i] * in_odd[i];
\*   out_even[i] = in_even[i] + t; out_odd[i] = in_even[i] - t; }
RECURSIVE butterfly_scalar_loop(_, _, _, _, _, _, _, _)
butterfly_scalar_loop(st, ie, io, twr, oe, oo, N, i) ==
    IF i >= N THEN st
    ELSE LET tt == Load(st, twr, i) * Load(st, io, i)
             s1 == Store(st, {twr, io, ie}, oe, i, Load(st, ie, i) + tt)
             s2 == Store(s1, {ie}, oo, i, Load(s1, ie, i) - tt)
         IN TheOnly({butterfly_scalar_loop(s, ie, io, twr, oe, oo, N, i + 1) : s \in {s2}})

\* mutant: a non-null twiddle_imag is used as the twiddle
vdsp_ntt_butterfly_f64_uses_imag(apple, fail, m, ie, io, twr, twi, oe, oo, N) ==
    LET r == butterfly_scalar_loop([mem |-> m, reads |-> {}], ie, io,
                                   IF twi = "NULL" THEN twr ELSE twi, oe, oo, N, 0)
    IN [mem |-> r.mem, reads |-> r.reads, path |-> "scalar"]

\* the whole function; fail = 0 when malloc(n * sizeof(double)) returns NULL.
\* temp is written by vDSP_vmulD before it is read, and freed before return.
vdsp_ntt_butterfly_f64(apple, fail, m, ie, io, twr, twi, oe, oo, N) ==
    LET st0 == [mem |-> m, reads |-> {}]
    IN IF apple THEN
           IF fail = 0 THEN
               LET r == butterfly_scalar_loop(st0, ie, io, twr, oe, oo, N, 0)
               IN [mem |-> r.mem, reads |-> r.reads, path |-> "scalar"]
           ELSE
               LET s0 == [mem |-> ("temp" :> [k \in 0..(N - 1) |-> 0]) @@ m, reads |-> {}]
                   s1 == vDSP_vmulD(s0, twr, io, "temp", N, 0)
                   s2 == vDSP_vaddD(s1, ie, "temp", oe, N, 0)
                   s3 == vDSP_vsubD(s2, "temp", ie, oo, N, 0)
               IN [mem |-> [x \in DOMAIN m |-> s3.mem[x]], reads |-> s3.reads \ {"temp"},
                   path |-> "vdsp"]
       ELSE
           LET r == butterfly_scalar_loop(st0, ie, io, twr, oe, oo, N, 0)
           IN [mem |-> r.mem, reads |-> r.reads, path |-> "scalar"]

\* inputs: integral values, outputs start with a recognisable filler
EvenVals == {0, 3, 0 - 5}
OddVals == {1, 0 - 2, 4}
TwiddleVals == {2, 0 - 3}
ImagVals == {7, 0 - 7}
Filler == 99

InitButterfly ==
    \E N \in 0..MaxElems :
    \E ev \in [0..(N - 1) -> EvenVals], od \in [0..(N - 1) -> OddVals],
       tw \in [0..(N - 1) -> TwiddleVals] :
    \E im \in ImagVals, twi \in {"twiddle_imag", "NULL"} :
    \E oe \in {"out_even", "in_even"}, oo \in {"out_odd", "in_odd"} :
    \E apple \in BOOLEAN :
        /\ op = "butterfly"
        /\ pc = "call"
        /\ HostIdle
        /\ MontIdle
        /\ APPLE = apple /\ has_sme = FALSE
        /\ g_sme_checked = FALSE /\ g_sme_available = FALSE
        /\ scalars = << >> /\ bucket_indices = << >> /\ points = << >>
        /\ buckets = << >> /\ buckets0 = << >>
        /\ num_points = 0 /\ num_buckets = 0 /\ coord_size = 0 /\ window_size = 0
        /\ alloc_fail \in AllocChoices(apple, 1)
        /\ path = "none" /\ ret = FALSE /\ writes = {}
        /\ mem = [x \in {"in_even", "in_odd", "twiddle_real", "twiddle_imag",
                         "out_even", "out_odd"} |->
                    CASE x = "in_even" -> ev
                      [] x = "in_odd" -> od
                      [] x = "twiddle_real" -> tw
                      [] x = "twiddle_imag" -> [k \in 0..(N - 1) |-> im]
                      [] OTHER -> [k \in 0..(N - 1) |-> Filler]]
        /\ mem0 = mem
        /\ in_even = "in_even" /\ in_odd = "in_odd"
        /\ twiddle_real = "twiddle_real" /\ twiddle_imag = twi
        /\ out_even = oe /\ out_odd = oo
        /\ n_elems = N
        /\ reads = {}

ButterflyCall ==
    /\ pc = "call" /\ op = "butterfly"
    /\ \E r \in {vdsp_ntt_butterfly_f64(APPLE, alloc_fail, mem, in_even, in_odd, twiddle_real,
                                        twiddle_imag, out_even, out_odd, n_elems)} :
          /\ mem' = r.mem
          /\ reads' = r.reads
          /\ path' = r.path
    /\ pc' = "done"
    /\ UNCHANGED <<op, host_vars, mont_vars, APPLE, has_sme, g_sme_checked, g_sme_available, scalars,
                   bucket_indices, points, buckets, buckets0, num_points, num_buckets,
                   coord_size, window_size, alloc_fail, ret, writes, mem0, in_even, in_odd,
                   twiddle_real, twiddle_imag, out_even, out_odd, n_elems>>

NextButterfly == ButterflyCall

SpecButterfly == InitButterfly /\ [][NextButterfly]_vars


(***************************************************************************)
(* Big-integer reference for the Montgomery claims.  MulMod multiplies     *)
(* modulo m by doubling, so that no intermediate value exceeds 2*m.        *)
(***************************************************************************)
RECURSIVE MulMod(_, _, _)
MulMod(x, y, m) ==
    IF y = 0 THEN 0
    ELSE LET h == MulMod(x, y \div 2, m)
         IN (2 * h + (IF y % 2 = 1 THEN x % m ELSE 0)) % m

MontDone == pc = "done" /\ op \in {"mul4", "mul6"}
ModulusValue == Value(modulus, limb_count)
ResultValue == Value(result, limb_count)
OneMont == RModulus(limb_count) % ModulusValue
\* the L limbs [L, 2L) of the scratch buffer after the reduction loop
UpperValue == Value(Slice(t, limb_count, limb_count), limb_count)

\* C1: for L in {4, 6}, every odd modulus m, matching mu and reduced a, b, the
\* multiply writes result = a*b*R^(-1) mod m: the result is reduced and
\* result*R is congruent to a*b modulo m (R is invertible modulo an odd m).
C1_MontgomeryProduct ==
    MontDone =>
        /\ ResultValue < ModulusValue
        /\ MulMod(ResultValue, OneMont, ModulusValue)
             = MulMod(Value(a, limb_count), Value(b, limb_count), ModulusValue)

\* C2: for every odd modulus, matching mu and reduced a, b, the value returned
\* after the single conditional subtraction is strictly less than the modulus.
C2_ResultReduced == MontDone => ResultValue < ModulusValue

\* C2 witness: a multiply whose upper half was >= m, so the subtraction ran
C2_Witness ==
    /\ MontDone
    /\ UpperValue >= ModulusValue
    /\ ResultValue = UpperValue - ModulusValue
    /\ 2 * ModulusValue > RModulus(limb_count)

\* C3: R mod m, the Montgomery form of 1, is a multiplicative identity:
\* multiplying any reduced x by R mod m (on either side) yields x, and so
\* a = b = R mod m yields R mod m.
C3_MontgomeryOneIsIdentity ==
    MontDone =>
        /\ (Value(b, limb_count) = OneMont => result = a)
        /\ (Value(a, limb_count) = OneMont => result = b)

\* C3 witness: a = b = R mod m for a modulus above R/2, giving R mod m again
C3_Witness ==
    /\ MontDone
    /\ Value(a, limb_count) = OneMont
    /\ Value(b, limb_count) = OneMont
    /\ ResultValue = OneMont
    /\ OneMont > 1

BatchDone == pc = "done" /\ op = "batch"

\* the single-pair multiply of the instantiation for n limbs
SingleMul(n, x, y) ==
    IF n = 4 THEN neon_montgomery_mul_4limb(NEON_AVAILABLE, x, y, modulus, mu).result
    ELSE neon_montgomery_mul_6limb(NEON_AVAILABLE, x, y, modulus, mu).result

\* C4: for limb_count in {4, 6} and any count, output element i of the batch is
\* the single-pair Montgomery product of input pair i, limbs [i*L, (i+1)*L) of a
\* and b, whatever count and the other pairs are.
C4_BatchMatchesSingle ==
    (BatchDone /\ limb_count \in {4, 6}) =>
        /\ DOMAIN result = 0..(count * limb_count - 1)
        /\ \A i \in 0..(count - 1) :
             Slice(result, i * limb_count, limb_count)
               = SingleMul(limb_count, Slice(a, i * limb_count, limb_count),
                           Slice(b, i * limb_count, limb_count))

\* C4 witness: a batch of at least two pairs with different operands and
\* different products
C4_Witness ==
    /\ BatchDone /\ limb_count = 4 /\ count >= 2
    /\ Slice(a, 0, 4) # Slice(a, 4, 4)
    /\ Slice(result, 0, 4) # Slice(result, 4, 4)
    /\ Slice(result, 4, 4) = SingleMul(4, Slice(a, 4, 4), Slice(b, 4, 4))

\* C5: for any limb_count other than 4 or 6 the batch call performs no
\* multiplication, returns (no fault), and leaves every output limb zero.
C5_UnsupportedLimbCountZeroes ==
    (op = "batch" /\ limb_count \notin {4, 6} /\ pc # "call") =>
        /\ pc = "done"
        /\ mul_calls = 0
        /\ \A k \in DOMAIN result : result[k] = 0

(***************************************************************************)
(* Reference for the bucket claims, stated over the inputs of the call.    *)
(***************************************************************************)
BucketDone == pc = "done" /\ op \in {"sme", "blas"}
PointIds == 0..(num_points - 1)
Digit(i) == scalars[i] % Pow2(window_size)

\* the point's key is beyond the bucket array
OutOfRange(i) ==
    IF op = "sme" THEN Digit(i) > num_buckets ELSE bucket_indices[i] >= num_buckets

\* the slot the point belongs to, -1 if it has none
SlotOf(i) ==
    IF op = "sme"
    THEN (IF Digit(i) >= 1 /\ Digit(i) <= num_buckets THEN Digit(i) - 1 ELSE -1)
    ELSE (IF bucket_indices[i] < num_buckets THEN bucket_indices[i] ELSE -1)

RECURSIVE SumOver(_, _)
SumOver(S, f) ==
    IF S = {} THEN 0
    ELSE LET x == CHOOSE y \in S : TRUE IN f[x] + SumOver(S \ {x}, f)

\* earlier content plus the coordinates of the points that belong to the slot
ExpectedBuckets ==
    [k \in 0..(num_buckets * coord_size - 1) |->
        buckets0[k]
          + SumOver({i \in PointIds : SlotOf(i) = k \div coord_size},
                    [i \in PointIds |-> points[i * coord_size + (k % coord_size)]])]

ScenarioBlasDone ==
    /\ pc = "done" /\ op = "blas"
    /\ num_points = 5 /\ num_buckets = 3 /\ coord_size = 1
    /\ bucket_indices = ScenarioKeys /\ points = ScenarioCoords
    /\ buckets0 = Zeros(3)

C7_SmeAddsEveryInRangePoint ==
    (pc = "done" /\ op = "sme") => buckets = ExpectedBuckets

\* C8: from zeroed buckets (and num_buckets = 2^w - 1 where there is a window)
\* the sum over all slots after one pass equals the sum of the coordinates of
\* the points whose digit is non-zero (for blas_bucket_accumulate: whose index
\* names a slot).
C8_BucketConservation ==
    (/\ BucketDone
     /\ buckets0 = Zeros(num_buckets * coord_size)
     /\ (op = "sme" => num_buckets = Pow2(window_size) - 1)) =>
        SumOver(DOMAIN buckets, buckets)
          = SumOver({k \in 0..(num_points * coord_size - 1) :
                        IF op = "sme" THEN Digit(k) # 0
                        ELSE bucket_indices[k \div coord_size] < num_buckets},
                    points)

\* the call's inputs with the out-of-range points taken out
KeptIds == SelectSeq([j \in 1..num_points |-> j - 1], LAMBDA i : ~OutOfRange(i))
KeptKeys(keys) == [k \in 0..(Len(KeptIds) - 1) |-> keys[KeptIds[k + 1]]]
KeptPoints ==
    [k \in 0..(Len(KeptIds) * coord_size - 1) |->
        points[KeptIds[(k \div coord_size) + 1] * coord_size + (k % coord_size)]]

WithoutOutOfRange ==
    IF op = "sme"
    THEN sme_bucket_outer_product(APPLE, alloc_fail, FALSE, FALSE, has_sme, KeptKeys(scalars),
                                  KeptPoints, buckets0, Len(KeptIds), num_buckets,
                                  window_size).buckets
    ELSE blas_bucket_accumulate(APPLE, alloc_fail, KeptKeys(bucket_indices), KeptPoints,
                                buckets0, Len(KeptIds), num_buckets, coord_size).buckets

\* C9: a point whose bucket is out of range (digit > num_buckets, index >=
\* num_buckets) is skipped without error: the call returns, every store to the
\* bucket array lands in [0, num_buckets*coord_size), and the buckets end as
\* they do when the call is made without the out-of-range points.
C9_OutOfRangeSkipped ==
    (op \in {"sme", "blas"} /\ pc # "call") =>
        /\ pc = "done"
        /\ writes \subseteq 0..(num_buckets * coord_size - 1)
        /\ DOMAIN buckets = 0..(num_buckets * coord_size - 1)
        /\ buckets = WithoutOutOfRange

\* C9 witness: a direct-loop call with an index equal to num_buckets, one above
\* it, and one in range whose slot was stored to
C9_Witness ==
    /\ pc = "done" /\ op = "blas" /\ path = "direct" /\ num_buckets >= 1
    /\ \E i, j, k \in PointIds :
          /\ bucket_indices[i] = num_buckets
          /\ bucket_indices[j] > num_buckets
          /\ bucket_indices[k] < num_buckets
    /\ writes # {}
    /\ buckets # buckets0

\* C10: on integral data, when the dense indicator-matrix strategy of
\* blas_bucket_accumulate runs (num_buckets <= 1024, num_points <= 4096) it
\* leaves bucket_accum exactly as the direct scatter-add loop would.
C10_DenseEqualsDirect ==
    (pc = "done" /\ op = "blas" /\ path = "dense") =>
        /\ num_buckets <= DenseMaxBuckets /\ num_points <= DenseMaxPoints
        /\ buckets = blas_direct_loop(buckets0, {}, bucket_indices, points, 0, num_points,
                                      num_buckets, coord_size).buckets

\* C10 witness: a dense run over two coordinates in which two points share a
\* bucket, a third is out of range, and the buckets held earlier content
C10_Witness ==
    /\ pc = "done" /\ op = "blas" /\ path = "dense" /\ coord_size = 2
    /\ buckets0 # Zeros(num_buckets * coord_size)
    /\ \E i, j, k \in PointIds :
          /\ i # j
          /\ bucket_indices[i] = bucket_indices[j]
          /\ bucket_indices[i] < num_buckets
          /\ bucket_indices[k] >= num_buckets
    /\ buckets # buckets0

\* the direct strategy alone, on the inputs of the call
DirectAlone ==
    blas_direct_loop(buckets0, {}, bucket_indices, points, 0, num_points, num_buckets,
                     coord_size).buckets

\* C11: when a scratch allocation of the dense path of blas_bucket_accumulate
\* returns NULL (the indicator, or a column buffer at any coordinate c), the
\* call ends with bucket_accum equal to what the direct loop alone produces.
C11_AllocFailureFallsBack ==
    (/\ pc = "done" /\ op = "blas" /\ APPLE
     /\ alloc_fail >= 0 /\ alloc_fail < 1 + 2 * coord_size) =>
        buckets = DirectAlone

\* C12: when the indicator allocation of sme_bucket_outer_product returns
\* NULL, the buckets on return hold the same sums as after a successful call.
C12_SmeAllocFailureFallsBack ==
    (pc = "done" /\ op = "sme" /\ APPLE /\ alloc_fail = 0) =>
        buckets = ExpectedBuckets

(***************************************************************************)
(* vdsp_ntt_butterfly_f64                                                  *)
(***************************************************************************)
ButterflyDone == pc = "done" /\ op = "butterfly"
Elems == 0..(n_elems - 1)
\* the output buffers are not input buffers
Separate == out_even = "out_even" /\ out_odd = "out_odd"
\* t = twiddle_real[i] * in_odd[i] on the values passed in
TwiddleProduct(i) == mem0[twiddle_real][i] * mem0[in_odd][i]

\* C13: with outputs that do not overlap the inputs, for every i < n,
\* out_even[i] = in_even[i] + t and out_odd[i] = in_even[i] - t with
\* t = twiddle_real[i] * in_odd[i], on the vDSP path and on the scalar path.
C13_ButterflyValues ==
    (ButterflyDone /\ Separate) =>
        \A i \in Elems :
            /\ mem[out_even][i] = mem0[in_even][i] + TwiddleProduct(i)
            /\ mem[out_odd][i] = mem0[in_even][i] - TwiddleProduct(i)

\* C13 witness: a vDSP run over two elements, separate buffers, in which
\* in_even - t and t - in_even differ
C13_Witness ==
    /\ ButterflyDone /\ Separate /\ path = "vdsp" /\ n_elems >= 2
    /\ \E i \in Elems :
          /\ mem0[in_even][i] - TwiddleProduct(i) # TwiddleProduct(i) - mem0[in_even][i]
          /\ mem[out_odd][i] = mem0[in_even][i] - TwiddleProduct(i)

OutputsWith(twi, im) ==
    LET r == vdsp_ntt_butterfly_f64(APPLE, alloc_fail,
                 [mem0 EXCEPT !["twiddle_imag"] = [k \in Elems |-> im]],
                 in_even, in_odd, twiddle_real, twi, out_even, out_odd, n_elems)
    IN <<r.mem[out_even], r.mem[out_odd]>>

\* C15: out_even and out_odd do not depend on twiddle_imag: the call made with
\* any other content of twiddle_imag, or with a null twiddle_imag, produces
\* the same outputs, and twiddle_imag is never loaded from.
C15_TwiddleImagUnused ==
    ButterflyDone =>
        /\ "twiddle_imag" \notin reads /\ "NULL" \notin reads
        /\ \A twi \in {"twiddle_imag", "NULL"}, im \in ImagVals \cup {Filler} :
              OutputsWith(twi, im) = <<mem[out_even], mem[out_odd]>>

\* C15 witness: a call that was handed a twiddle_imag buffer, loaded from the
\* other three inputs and stored its outputs
C15_Witness ==
    /\ ButterflyDone /\ twiddle_imag = "twiddle_imag" /\ n_elems >= 1
    /\ reads = {"in_even", "in_odd", "twiddle_real"}
    /\ mem[out_odd] # mem0[out_odd]

(***************************************************************************)
(* Limb primitives against big-integer arithmetic                          *)
(***************************************************************************)
AValue == Value(a, limb_count)
BValue == Value(b, limb_count)
AllOnes == RadixPow(limb_count) - 1

\* C16: add_with_carry matches big-integer addition:
\* result + carry_out * 2^(64*L) = a + b with carry_out in {0, 1}.
C16_AddMatchesBigInteger ==
    (pc = "done" /\ op = "add") =>
        /\ helper_ret \in {0, 1}
        /\ Value(result, limb_count) + helper_ret * RadixPow(limb_count) = AValue + BValue

\* C16 witness: all-ones limbs plus one, the carry runs through every limb
C16_Witness ==
    /\ pc = "done" /\ op = "add" /\ limb_count = 6
    /\ AValue = AllOnes /\ BValue = 1
    /\ helper_ret = 1 /\ result = ZeroLimbs(limb_count)

\* C17: sub_with_borrow writes (a - b) mod 2^(64*L) and returns 1 exactly
\* when a < b as unsigned big integers, 0 otherwise.
C17_SubMatchesBigInteger ==
    (pc = "done" /\ op = "sub") =>
        /\ Value(result, limb_count) = (AValue - BValue) % RadixPow(limb_count)
        /\ helper_ret = (IF AValue < BValue THEN 1 ELSE 0)

\* C17 witness: zero minus one, the borrow runs through every limb and out
C17_Witness ==
    /\ pc = "done" /\ op = "sub" /\ limb_count = 6
    /\ AValue = 0 /\ BValue = 1
    /\ helper_ret = 1 /\ result = FillLimbs(limb_count, Base - 1)

\* C18: compare_limbs returns -1, 0 or 1 exactly when a < b, a = b or a > b
\* as unsigned big integers held in little-endian limbs.
C18_CompareMatchesBigInteger ==
    (pc = "done" /\ op = "cmp") =>
        helper_ret = (IF AValue < BValue THEN -1 ELSE IF AValue = BValue THEN 0 ELSE 1)

\* C18 witness: a < b decided by a higher limb although the lowest limb of a
\* is the larger one and the most-significant limbs are equal
C18_Witness ==
    /\ pc = "done" /\ op = "cmp" /\ helper_ret = -1
    /\ a[0] > b[0]
    /\ a[limb_count - 1] = b[limb_count - 1]
    /\ \E k \in 1..(limb_count - 2) : a[k] < b[k]

(***************************************************************************)
(* Accelerated path against scalar fallback                                *)
(***************************************************************************)
\* neon_schoolbook_mul followed by neon_montgomery_reduce, for a limb count
AcceleratedPath(n) == neon_montgomery_reduce(neon_schoolbook_mul(a, b, n), modulus, mu, n)
\* the fallback body, for a limb count
ScalarPath(n) == scalar_montgomery_mul(a, b, modulus, mu, n, 2 * n)
\* the entry point of the call, in the build named
EntryPoint(neon) ==
    IF op = "mul4" THEN neon_montgomery_mul_4limb(neon, a, b, modulus, mu)
    ELSE neon_montgomery_mul_6limb(neon, a, b, modulus, mu)

\* C19: for every a, b, modulus and mu the NEON build (neon_schoolbook_mul,
\* then neon_montgomery_reduce) and the scalar fallback return the same
\* limbs, and the 4-limb and 6-limb entry points are one algorithm taken at
\* limb count 4 and at limb count 6.
C19_NeonEqualsScalar ==
    MontDone =>
        /\ AcceleratedPath(limb_count).result = ScalarPath(limb_count).result
        /\ EntryPoint(TRUE) = AcceleratedPath(limb_count)
        /\ EntryPoint(FALSE) = ScalarPath(limb_count)
        /\ result = EntryPoint(~NEON_AVAILABLE).result

\* C19 witness: a scalar-build call with operands above the modulus and a
\* mu that is not the Montgomery constant, returning the non-zero limbs that
\* the NEON build returns
C19_Witness ==
    /\ MontDone /\ ~NEON_AVAILABLE /\ limb_count = 4
    /\ AValue > ModulusValue /\ BValue > ModulusValue /\ ModulusValue % 2 = 1
    /\ (mu * (ModulusValue % Base) + 1) % Base # 0
    /\ result = AcceleratedPath(4).result
    /\ ResultValue # 0

(***************************************************************************)
(* Bucket accumulation as an in-place addition                             *)
(***************************************************************************)
\* the points mapped to the bucket of array position k
MappedTo(k) == {i \in PointIds : SlotOf(i) = k \div coord_size}

\* C20: starting from arbitrary bucket contents B0, after a call every slot
\* holds B0[slot] plus the sum of the coordinates of the points mapped to it,
\* and a slot no point maps to is left as it was.
C20_AdditiveInPlace ==
    BucketDone =>
        /\ DOMAIN buckets = DOMAIN buckets0
        /\ \A k \in DOMAIN buckets :
              /\ MappedTo(k) = {} => buckets[k] = buckets0[k]
              /\ buckets[k] - buckets0[k]
                    = SumOver(MappedTo(k),
                              [i \in PointIds |-> points[i * coord_size + (k % coord_size)]])

(***************************************************************************)
(* Host-language binding of the vector kernels: addon.cc VdspVectorAdd,    *)
(* VdspVectorMul, VdspVectorSub over vdsp_ops.cc vdsp_vector_*_f64         *)
(***************************************************************************)
\* for (i = 0; i < n; i++) c[i] = a[i] + b[i];
RECURSIVE vector_add_loop(_, _, _, _, _, _)
vector_add_loop(st, A, B, C, N, i) ==
    IF i >= N THEN st
    ELSE vector_add_loop(Store(st, {A, B}, C, i, Load(st, A, i) + Load(st, B, i)),
                         A, B, C, N, i + 1)

\* for (i = 0; i < n; i++) c[i] = a[i] * b[i];
RECURSIVE vector_mul_loop(_, _, _, _, _, _)
vector_mul_loop(st, A, B, C, N, i) ==
    IF i >= N THEN st
    ELSE vector_mul_loop(Store(st, {A, B}, C, i, Load(st, A, i) * Load(st, B, i)),
                         A, B, C, N, i + 1)

\* for (i = 0; i < n; i++) c[i] = a[i] - b[i];
RECURSIVE vector_sub_loop(_, _, _, _, _, _)
vector_sub_loop(st, A, B, C, N, i) ==
    IF i >= N THEN st
    ELSE vector_sub_loop(Store(st, {A, B}, C, i, Load(st, A, i) - Load(st, B, i)),
                         A, B, C, N, i + 1)

vdsp_vector_add_f64(apple, st, A, B, C, N) ==
    IF apple THEN vDSP_vaddD(st, A, B, C, N, 0) ELSE vector_add_loop(st, A, B, C, N, 0)

vdsp_vector_mul_f64(apple, st, A, B, C, N) ==
    IF apple THEN vDSP_vmulD(st, A, B, C, N, 0) ELSE vector_mul_loop(st, A, B, C, N, 0)

\* the Apple build passes b first: vDSP_vsubD(b, 1, a, 1, c, 1, n)
vdsp_vector_sub_f64(apple, st, A, B, C, N) ==
    IF apple THEN vDSP_vsubD(st, B, A, C, N, 0) ELSE vector_sub_loop(st, A, B, C, N, 0)

\* the kernel a binding calls (addon.cc:103, 130, 157)
vector_kernel(kernel, apple, st, A, B, C, N) ==
    CASE kernel = "vdsp_vector_add_f64" -> vdsp_vector_add_f64(apple, st, A, B, C, N)
      [] kernel = "vdsp_vector_mul_f64" -> vdsp_vector_mul_f64(apple, st, A, B, C, N)
      [] kernel = "vdsp_vector_sub_f64" -> vdsp_vector_sub_f64(apple, st, A, B, C, N)

\* JavaScript values handed to the binding
Float64Array(d) == [kind |-> "Float64Array", data |-> d]
JsNumber == [kind |-> "number", data |-> << >>]
IsTypedArray(v) == v.kind = "Float64Array"
ElementLength(v) == Cardinality(DOMAIN v.data)
\* info[k], k counted from 0
Info(info, k) == info[k + 1]

\* mutant: arrays of different length are cut to the shorter one
vector_binding_truncates(info, apple, kernel) ==
    IF Len(info) < 2 \/ ~IsTypedArray(Info(info, 0)) \/ ~IsTypedArray(Info(info, 1))
    THEN [exception |-> "TypeError", message |-> "Expected two Float64Array arguments",
          result |-> Float64Array(<< >>), kernel_calls |-> 0]
    ELSE LET x == Info(info, 0)
             y == Info(info, 1)
             n == IF ElementLength(x) < ElementLength(y) THEN ElementLength(x)
                  ELSE ElementLength(y)
             heap == [mem |-> [p \in {"a", "b", "result"} |->
                                  CASE p = "a" -> x.data
                                    [] p = "b" -> y.data
                                    [] OTHER -> Zeros(n)],
                      reads |-> {}]
         IN [exception |-> "none", message |-> "",
             result |-> Float64Array(
                 vector_kernel(kernel, apple, heap, "a", "b", "result", n).mem["result"]),
             kernel_calls |-> 1]

\* the body shared by the three bindings (addon.cc:84-106, 111-133, 138-160)
vector_binding(info, apple, kernel) ==
    IF Len(info) < 2 \/ ~IsTypedArray(Info(info, 0)) \/ ~IsTypedArray(Info(info, 1))
    THEN [exception |-> "TypeError", message |-> "Expected two Float64Array arguments",
          result |-> Float64Array(<< >>), kernel_calls |-> 0]
    ELSE LET x == Info(info, 0)
             y == Info(info, 1)
         IN IF ElementLength(x) # ElementLength(y)
            THEN [exception |-> "TypeError", message |-> "Arrays must have the same length",
                  result |-> Float64Array(<< >>), kernel_calls |-> 0]
            ELSE LET n == ElementLength(x)
                     heap == [mem |-> [p \in {"a", "b", "result"} |->
                                          CASE p = "a" -> x.data
                                            [] p = "b" -> y.data
                                            [] OTHER -> Zeros(n)],
                              reads |-> {}]
                 IN [exception |-> "none", message |-> "",
                     result |-> Float64Array(
                         vector_kernel(kernel, apple, heap, "a", "b", "result", n).mem["result"]),
                     kernel_calls |-> 1]

VdspVectorAdd(info, apple) == vector_binding(info, apple, "vdsp_vector_add_f64")
VdspVectorMul(info, apple) == vector_binding(info, apple, "vdsp_vector_mul_f64")
VdspVectorSub(info, apple) == vector_binding(info, apple, "vdsp_vector_sub_f64")

ElemVals == {2, 3}
JsArrays == UNION {{Float64Array(d) : d \in [0..(n - 1) -> ElemVals]} : n \in 0..MaxElems}
JsValues == JsArrays \cup {JsNumber}
\* argument lists: none, one, two, or two followed by an extra argument
JsArgLists ==
    {<< >>} \cup {<<x>> : x \in JsValues} \cup {<<x, y>> : x \in JsValues, y \in JsValues}
       \cup {<<x, y, JsNumber>> : x \in JsValues, y \in JsValues}

InitAddon ==
    \E o \in {"vdspVectorAdd", "vdspVectorMul", "vdspVectorSub"} :
    \E info \in JsArgLists :
        /\ op = o
        /\ pc = "call"
        /\ MontIdle
        /\ VdspIdle
        /\ APPLE \in BOOLEAN /\ has_sme = FALSE
        /\ g_sme_checked = FALSE /\ g_sme_available = FALSE
        /\ scalars = << >> /\ bucket_indices = << >> /\ points = << >>
        /\ buckets = << >> /\ buckets0 = << >>
        /\ num_points = 0 /\ num_buckets = 0 /\ coord_size = 0 /\ window_size = 0
        /\ alloc_fail = -1 /\ path = "none" /\ ret = FALSE /\ writes = {}
        /\ result_ptr = "result"
        /\ js_args = info /\ js_exception = "none" /\ js_result = << >> /\ kernel_calls = 0
        /\ thread_pc = << >> /\ thread_ret = << >> /\ calls_made = << >> /\ probe_calls = 0

Returned(r) ==
    /\ js_exception' = r.exception
    /\ js_result' = r.result
    /\ kernel_calls' = kernel_calls + r.kernel_calls
    /\ pc' = "done"
    /\ UNCHANGED <<op, mont_vars, bucket_vars, vdsp_vars, result_ptr, js_args,
                   thread_pc, thread_ret, calls_made, probe_calls>>

VdspVectorAddCall ==
    /\ pc = "call" /\ op = "vdspVectorAdd"
    /\ \E r \in {VdspVectorAdd(js_args, APPLE)} : Returned(r)

VdspVectorMulCall ==
    /\ pc = "call" /\ op = "vdspVectorMul"
    /\ \E r \in {VdspVectorMul(js_args, APPLE)} : Returned(r)

VdspVectorSubCall ==
    /\ pc = "call" /\ op = "vdspVectorSub"
    /\ \E r \in {VdspVectorSub(js_args, APPLE)} : Returned(r)

NextAddon == VdspVectorAddCall \/ VdspVectorMulCall \/ VdspVectorSubCall

SpecAddon == InitAddon /\ [][NextAddon]_vars

AddonDone == pc = "done" /\ op \in {"vdspVectorAdd", "vdspVectorMul", "vdspVectorSub"}
TwoTypedArrays ==
    Len(js_args) >= 2 /\ IsTypedArray(Info(js_args, 0)) /\ IsTypedArray(Info(js_args, 1))
LengthsDiffer ==
    TwoTypedArrays /\ ElementLength(Info(js_args, 0)) # ElementLength(Info(js_args, 1))

\* C21: a call of vdspVectorAdd, vdspVectorMul or vdspVectorSub that has fewer
\* than two typed-array arguments, or two arrays of different length, ends with
\* a TypeError raised and the empty array returned, and the vector kernel has
\* not been invoked for it.
C21_MalformedCallRejected ==
    (AddonDone /\ (~TwoTypedArrays \/ LengthsDiffer)) =>
        /\ js_exception = "TypeError"
        /\ js_result = Float64Array(<< >>)
        /\ kernel_calls = 0

C21_Witness ==
    /\ AddonDone /\ LengthsDiffer /\ js_exception = "TypeError" /\ kernel_calls = 0
    /\ ElementLength(Info(js_args, 0)) > 0 /\ ElementLength(Info(js_args, 1)) > 0

(***************************************************************************)
(* sme_ops.cc sme_available, statement by statement, called from threads   *)
(***************************************************************************)
MaxThreads == 2
MaxCalls == 3
Threads == 1..MaxThreads

InitSmeThreads ==
    /\ op = "sme_available"
    /\ pc = "call"
    /\ MontIdle
    /\ VdspIdle
    /\ APPLE \in BOOLEAN
    /\ has_sme \in (IF APPLE THEN BOOLEAN ELSE {FALSE})
    \* static bool g_sme_checked = false; static bool g_sme_available = false;
    /\ g_sme_checked = FALSE /\ g_sme_available = FALSE
    /\ scalars = << >> /\ bucket_indices = << >> /\ points = << >>
    /\ buckets = << >> /\ buckets0 = << >>
    /\ num_points = 0 /\ num_buckets = 0 /\ coord_size = 0 /\ window_size = 0
    /\ alloc_fail = -1 /\ path = "none" /\ ret = FALSE /\ writes = {}
    /\ result_ptr = "result"
    /\ js_args = << >> /\ js_exception = "none" /\ js_result = << >> /\ kernel_calls = 0
    /\ thread_pc = [th \in Threads |-> "idle"]
    /\ thread_ret = [th \in Threads |-> << >>]
    /\ calls_made = [th \in Threads |-> 0]
    /\ probe_calls = 0

SmeFrame ==
    UNCHANGED <<op, pc, mont_vars, vdsp_vars, APPLE, has_sme, scalars, bucket_indices, points,
                buckets, buckets0, num_points, num_buckets, coord_size, window_size,
                alloc_fail, path, ret, writes, result_ptr, js_args, js_exception, js_result,
                kernel_calls>>

\* a thread calls sme_available()
SmeEnter(th) ==
    /\ thread_pc[th] = "idle" /\ calls_made[th] < MaxCalls
    /\ thread_pc' = [thread_pc EXCEPT ![th] = "line36"]
    /\ calls_made' = [calls_made EXCEPT ![th] = @ + 1]
    /\ UNCHANGED <<g_sme_checked, g_sme_available, thread_ret, probe_calls>>
    /\ SmeFrame

\* the same, when no other call is in progress
SmeEnterAlone(th) ==
    /\ \A o \in Threads : thread_pc[o] = "idle"
    /\ SmeEnter(th)

\* mutant: the flag is not consulted, every call goes on to probe
SmeCheck_ignores_flag(th) ==
    /\ thread_pc[th] = "line36"
    /\ thread_pc' = [thread_pc EXCEPT ![th] = "line40"]
    /\ UNCHANGED <<g_sme_checked, g_sme_available, thread_ret, calls_made, probe_calls>>
    /\ SmeFrame

\* if (g_sme_checked) { return g_sme_available; }
SmeCheck(th) ==
    /\ thread_pc[th] = "line36"
    /\ IF g_sme_checked
       THEN /\ thread_ret' = [thread_ret EXCEPT ![th] = Append(@, g_sme_available)]
            /\ thread_pc' = [thread_pc EXCEPT ![th] = "idle"]
       ELSE /\ thread_pc' = [thread_pc EXCEPT ![th] = "line40"]
            /\ UNCHANGED thread_ret
    /\ UNCHANGED <<g_sme_checked, g_sme_available, calls_made, probe_calls>>
    /\ SmeFrame

\* g_sme_checked = true;
SmeMark(th) ==
    /\ thread_pc[th] = "line40"
    /\ g_sme_checked' = TRUE
    /\ thread_pc' = [thread_pc EXCEPT ![th] = "line41"]
    /\ UNCHANGED <<g_sme_available, thread_ret, calls_made, probe_calls>>
    /\ SmeFrame

\* g_sme_available = has_sme_support();
SmeProbe(th) ==
    /\ thread_pc[th] = "line41"
    /\ g_sme_available' = has_sme
    /\ probe_calls' = probe_calls + 1
    /\ thread_pc' = [thread_pc EXCEPT ![th] = "line43"]
    /\ UNCHANGED <<g_sme_checked, thread_ret, calls_made>>
    /\ SmeFrame

\* return g_sme_available;
SmeReturn(th) ==
    /\ thread_pc[th] = "line43"
    /\ thread_ret' = [thread_ret EXCEPT ![th] = Append(@, g_sme_available)]
    /\ thread_pc' = [thread_pc EXCEPT ![th] = "idle"]
    /\ UNCHANGED <<g_sme_checked, g_sme_available, calls_made, probe_calls>>
    /\ SmeFrame

\* calls made one after another, from any thread
NextSmeSequential ==
    \E th \in Threads :
        SmeEnterAlone(th) \/ SmeCheck(th) \/ SmeMark(th) \/ SmeProbe(th) \/ SmeReturn(th)

SpecSmeSequential == InitSmeThreads /\ [][NextSmeSequential]_vars

\* calls that may overlap
NextSmeThreads ==
    \E th \in Threads :
        SmeEnter(th) \/ SmeCheck(th) \/ SmeMark(th) \/ SmeProbe(th) \/ SmeReturn(th)

SpecSmeThreads == InitSmeThreads /\ [][NextSmeThreads]_vars

SmeModel == op = "sme_available"
Returns == UNION {{thread_ret[th][k] : k \in 1..Len(thread_ret[th])} : th \in Threads}
NoReturnYet == \A th \in Threads : thread_ret[th] = << >>

\* C22: over any sequence of sme_available calls, has_sme_support runs at most
\* once and has run before the first call returns, every call returns the
\* value has_sme_support produced, and once that value is stored neither the
\* cached value nor the checked flag changes again.
C22_ProbedOnceAndCached ==
    /\ [](SmeModel =>
            /\ probe_calls <= 1
            /\ (probe_calls = 0 => NoReturnYet)
            /\ Returns \subseteq {has_sme})
    /\ [][(SmeModel /\ probe_calls = 1) =>
            /\ probe_calls' = 1
            /\ g_sme_checked /\ g_sme_checked'
            /\ g_sme_available' = g_sme_available]_vars

C22_Witness ==
    /\ SmeModel /\ probe_calls = 1 /\ has_sme
    /\ \A th \in Threads : calls_made[th] = MaxCalls /\ Len(thread_ret[th]) = MaxCalls

\* C23: when calls of sme_available overlap, every caller is returned the
\* value has_sme_support computes, and no call finds g_sme_checked set while
\* g_sme_available still holds its initial value instead of the probe's.
C23_ConcurrentCallersAgree ==
    SmeModel =>
        /\ Returns \subseteq {has_sme}
        /\ \A th \in Threads :
              (thread_pc[th] = "line36" /\ g_sme_checked) => g_sme_available = has_sme

(***************************************************************************)
(* The schoolbook multiply on its own: neon_schoolbook_mul in the NEON     *)
(* build, the first loop nest of the entry points in the scalar build      *)
(***************************************************************************)
\* operands with all limbs set, one limb set, alternating limbs, and small ones
SchoolbookVals(n) ==
    AnyOperandVals(n) \cup {RModulus(n) \div 3, RModulus(n) - Base, RModulus(n) \div Base}

InitSchoolbook ==
    \E n \in {4, 6} :
    \E av \in SchoolbookVals(n), bv \in SchoolbookVals(n) :
        /\ op = "schoolbook"
        /\ pc = "call"
        /\ HostIdle
        /\ NEON_AVAILABLE \in BOOLEAN
        /\ limb_count = n
        /\ count = 1
        /\ a = ToLimbs(av, n)
        /\ b = ToLimbs(bv, n)
        /\ modulus = ZeroLimbs(n)
        /\ mu = 0
        /\ t = FillLimbs(2 * n, Base - 1)
        /\ result = FillLimbs(n, Base - 1)
        /\ mul_calls = 0
        /\ helper_ret = 0
        /\ BucketIdle
        /\ VdspIdle

SchoolbookMul ==
    /\ pc = "call" /\ op = "schoolbook"
    /\ t' = IF NEON_AVAILABLE
            THEN neon_schoolbook_mul(a, b, limb_count)
            ELSE scalar_mul_outer(a, b, ZeroLimbs(2 * limb_count), 0, limb_count)
    /\ pc' = "done"
    /\ UNCHANGED <<op, host_vars, NEON_AVAILABLE, limb_count, count, a, b, modulus, mu, result,
                   mul_calls, helper_ret, bucket_vars, vdsp_vars>>

NextSchoolbook == SchoolbookMul

SpecSchoolbook == InitSchoolbook /\ [][NextSchoolbook]_vars

\* the value of the limbs x[0..n-1] modulo p, by Horner's rule from the top limb
RECURSIVE ValueModFrom(_, _, _, _)
ValueModFrom(x, k, n, p) ==
    IF k >= n THEN 0 ELSE (x[k] + Base * ValueModFrom(x, k + 1, n, p)) % p

\* three primes below 2^15 whose product (about 3.5 * 10^13) exceeds R^2: two
\* values below R^2 that agree modulo each of them are equal
CheckPrimes == {32717, 32719, 32749}

SchoolbookDone == pc = "done" /\ op = "schoolbook"

\* C24: the schoolbook multiply leaves in the 2L-limb buffer t exactly the
\* integer a * b, for all L-limb a and b, all-ones limbs included: t is 2L
\* words and its value equals a * b modulo each of three primes whose product
\* exceeds R^2.
C24_SchoolbookExact ==
    SchoolbookDone =>
        /\ t \in Words(2 * limb_count)
        /\ \A p \in CheckPrimes :
              ValueModFrom(t, 0, 2 * limb_count, p) = ((AValue % p) * (BValue % p)) % p

C24_Witness ==
    /\ SchoolbookDone /\ limb_count = 6
    /\ AValue = AllOnes /\ BValue = AllOnes
    /\ t[2 * limb_count - 1] = Base - 1 /\ t[0] = 1

\* the reduction rows of the build in use, replayed on the buffer tt from row i:
\* the set of rows whose carry propagation stops at k = 2L with carry # 0
RECURSIVE LostCarryRows(_, _, _, _, _, _)
LostCarryRows(neon, tt, md, m_u, i, n) ==
    IF i >= n \/ tt \notin Words(2 * n) THEN {}
    ELSE LET m == (tt[i] * m_u) % Base
             r1 == IF neon THEN reduce_inner(tt, m, md, i, 0, 0, n)
                   ELSE scalar_reduce_inner(tt, m, md, i, 0, 0, n)
             r2 == IF neon THEN reduce_carry(r1.t, i + n, r1.carry, 2 * n)
                   ELSE scalar_reduce_carry(r1.t, i + n, r1.carry, 2 * n)
         IN (IF r2.carry # 0 THEN {i} ELSE {})
               \cup LostCarryRows(neon, r2.t, md, m_u, i + 1, n)

\* the 2L-limb product the reduction starts from
ProductBuffer ==
    IF NEON_AVAILABLE THEN neon_schoolbook_mul(a, b, limb_count)
    ELSE scalar_mul_outer(a, b, ZeroLimbs(2 * limb_count), 0, limb_count)

\* C25: for every odd modulus m, matching mu and a, b < m, no reduction row
\* leaves a carry out of limb 2L-1, so the limbs [L, 2L) hold the exact
\* reduced sum: a value below 2m that, multiplied by R, is congruent to a*b
\* modulo m.
C25_NoCarryDiscarded ==
    MontDone =>
        /\ LostCarryRows(NEON_AVAILABLE, ProductBuffer, modulus, mu, 0, limb_count) = {}
        /\ UpperValue < 2 * ModulusValue
        /\ MulMod(UpperValue, OneMont, ModulusValue)
             = MulMod(Value(a, limb_count), Value(b, limb_count), ModulusValue)

\* mu is not -m^(-1) modulo the word size
WrongMu == (mu * (ModulusValue % Base) + 1) % Base # 0

\* C26: with an odd modulus, reduced a and b and a mu that is not the
\* Montgomery constant of the modulus, the multiply still completes (no fault,
\* L words written) and the value it returns is strictly below the modulus.
C26_WrongMuStillReduced ==
    (op \in {"mul4", "mul6"} /\ pc # "call" /\ ModulusValue % 2 = 1
       /\ AValue < ModulusValue /\ BValue < ModulusValue /\ WrongMu) =>
        /\ pc = "done"
        /\ result \in Words(limb_count)
        /\ ResultValue < ModulusValue

\* C26 witness: a wrong mu, the subtraction taken, and a returned value that
\* is reduced but is not a*b*R^(-1) mod m
C26_Witness ==
    /\ MontDone /\ ModulusValue % 2 = 1 /\ WrongMu
    /\ AValue < ModulusValue /\ BValue < ModulusValue
    /\ UpperValue >= ModulusValue
    /\ ResultValue < ModulusValue
    /\ MulMod(ResultValue, OneMont, ModulusValue) # MulMod(AValue, BValue, ModulusValue)

(***************************************************************************)
(* The core operations together, each call taken when it is enabled        *)
(***************************************************************************)
\* the calls followed to their end: every operation, build, size, path and
\* allocation outcome, with operands equal to each other and separate output
\* buffers, since the number of iterations does not depend on the rest; the
\* bucket calls are those of the five-point scenario
SameEverywhere(f) == \A i \in DOMAIN f : \A j \in DOMAIN f : f[i] = f[j]

CoreSample ==
    /\ op \in {"mul4", "mul6", "batch"} => a = b
    /\ op = "batch" => \A k \in DOMAIN result : result[k] = 1
    /\ op = "butterfly" =>
          /\ out_even = "out_even" /\ out_odd = "out_odd" /\ twiddle_imag = "NULL"
          /\ SameEverywhere(mem["in_even"]) /\ SameEverywhere(mem["in_odd"])
          /\ SameEverywhere(mem["twiddle_real"])

InitCore ==
    \/ /\ InitMont \/ InitSchoolbook \/ InitBatch \/ InitButterfly
       /\ CoreSample
    \/ InitScenario

NextCore == NextMont \/ NextSchoolbook \/ NextBatch \/ NextBucket \/ NextButterfly

SpecCore == InitCore /\ [][NextCore]_vars /\ WF_vars(NextCore)

\* the rows of the NEON schoolbook multiply replayed from row i: for each row,
\* the index at which its carry propagation stopped
RECURSIVE SchoolbookCarryExits(_, _, _, _, _)
SchoolbookCarryExits(x, y, res, i, n) ==
    IF i >= n \/ res \notin Words(2 * n) THEN {}
    ELSE LET r1 == schoolbook_inner(x, y, res, i, 0, 0, n)
             r2 == schoolbook_carry(r1.result, i + n, r1.carry, 2 * n)
         IN {<<i, r2.k>>} \cup SchoolbookCarryExits(x, y, r2.result, i + 1, n)

\* the same for the reduction rows of the build in use
RECURSIVE ReduceCarryExits(_, _, _, _, _, _)
ReduceCarryExits(neon, tt, md, m_u, i, n) ==
    IF i >= n \/ tt \notin Words(2 * n) THEN {}
    ELSE LET m == (tt[i] * m_u) % Base
             r1 == IF neon THEN reduce_inner(tt, m, md, i, 0, 0, n)
                   ELSE scalar_reduce_inner(tt, m, md, i, 0, 0, n)
             r2 == IF neon THEN reduce_carry(r1.t, i + n, r1.carry, 2 * n)
                   ELSE scalar_reduce_carry(r1.t, i + n, r1.carry, 2 * n)
         IN {<<i, r2.k>>} \cup ReduceCarryExits(neon, r2.t, md, m_u, i + 1, n)

\* a row i whose propagation started at i + L stopped after at most 2L - (i + L) steps
WithinBound(exits, n) ==
    /\ {e[1] : e \in exits} = 0..(n - 1)
    /\ \A e \in exits : e[2] >= e[1] + n /\ e[2] - (e[1] + n) <= 2 * n - (e[1] + n)

CarryLoopsBounded ==
    (pc = "done" /\ op \in {"mul4", "mul6", "schoolbook"}) =>
        /\ NEON_AVAILABLE =>
              WithinBound(SchoolbookCarryExits(a, b, ZeroLimbs(2 * limb_count), 0, limb_count),
                          limb_count)
        /\ op # "schoolbook" =>
              WithinBound(ReduceCarryExits(NEON_AVAILABLE, ProductBuffer, modulus, mu, 0,
                                           limb_count), limb_count)

montgomery_mul_at_clears_result(neon, heap, a_ptr, b_ptr, modulus_ptr, m_u, res_ptr, n) ==
    TheOnly({[mem |-> [h0 EXCEPT ![res_ptr] =
                          IF n = 4
                          THEN neon_montgomery_mul_4limb(neon, h0[a_ptr], h0[b_ptr],
                                                         h0[modulus_ptr], m_u).result
                          ELSE neon_montgomery_mul_6limb(neon, h0[a_ptr], h0[b_ptr],
                                                         h0[modulus_ptr], m_u).result],
              t |-> ZeroLimbs(2 * n)] :
                h0 \in {[heap EXCEPT ![res_ptr] = ZeroLimbs(n)]}})

\* the limbs of t after the product and the reduction rows, both worked in the
\* local t from the a, b and modulus buffers as they are on entry
reduced_product_at(neon, heap, a_ptr, b_ptr, modulus_ptr, m_u, n) ==
    IF neon
    THEN reduce_outer(neon_schoolbook_mul(heap[a_ptr], heap[b_ptr], n),
                      heap[modulus_ptr], m_u, 0, n)
    ELSE scalar_reduce_outer(
             scalar_mul_outer(heap[a_ptr], heap[b_ptr], ZeroLimbs(2 * n), 0, n),
             heap[modulus_ptr], m_u, 0, n, 2 * n)

\* memcpy(result, t + L, ...); then compare_limbs(result, modulus) and
\* sub_with_borrow(result, modulus, result) read both buffers as they are
\* after the copy
copy_and_final_reduction_at(heap, tr, modulus_ptr, res_ptr, n) ==
    TheOnly({IF compare_limbs(h1[res_ptr], h1[modulus_ptr], n) >= 0
             THEN [h1 EXCEPT ![res_ptr] =
                      sub_with_borrow(h1[res_ptr], h1[modulus_ptr], n).result]
             ELSE h1 :
                h1 \in {[heap EXCEPT ![res_ptr] = Slice(tr, n, n)]}})

\* neon_montgomery_mul_4limb / _6limb (a, b, modulus, mu, result) on addresses
montgomery_mul_at(neon, heap, a_ptr, b_ptr, modulus_ptr, m_u, res_ptr, n) ==
    TheOnly({[mem |-> copy_and_final_reduction_at(heap, tr, modulus_ptr, res_ptr, n),
              t |-> tr] :
                tr \in {reduced_product_at(neon, heap, a_ptr, b_ptr, modulus_ptr, m_u, n)}})

InitInPlace ==
    \E n \in {4, 6} :
    \E m \in ModulusVals(n) :
    \E av \in OperandVals(m, n), bv \in OperandVals(m, n) :
        /\ op = (IF n = 4 THEN "mul4" ELSE "mul6")
        /\ pc = "call"
        /\ NEON_AVAILABLE \in BOOLEAN
        /\ limb_count = n
        /\ count = 1
        /\ a = ToLimbs(av, n)
        /\ b = ToLimbs(bv, n)
        /\ modulus = ToLimbs(m, n)
        /\ mu = MuFor(m)
        /\ t = FillLimbs(2 * n, Base - 1)
        /\ result = FillLimbs(n, Base - 1)
        /\ mul_calls = 0
        /\ helper_ret = 0
        /\ BucketIdle
        \* the result pointer is a buffer of its own, or the a or b argument
        /\ result_ptr \in {"result", "a", "b"}
        /\ mem = [x \in {"a", "b", "modulus", "result"} |->
                    CASE x = "a" -> a [] x = "b" -> b [] x = "modulus" -> modulus
                      [] OTHER -> result]
        /\ mem0 = mem
        /\ in_even = "NULL" /\ in_odd = "NULL" /\ twiddle_real = "NULL"
        /\ twiddle_imag = "NULL" /\ out_even = "NULL" /\ out_odd = "NULL"
        /\ n_elems = 0 /\ reads = {}
        /\ js_args = << >> /\ js_exception = "none" /\ js_result = << >> /\ kernel_calls = 0
        /\ thread_pc = << >> /\ thread_ret = << >> /\ calls_made = << >> /\ probe_calls = 0

MulAt(n) ==
    /\ pc = "call" /\ limb_count = n
    /\ \E r \in {montgomery_mul_at(NEON_AVAILABLE, mem, "a", "b", "modulus", mu, result_ptr, n)} :
          /\ mem' = r.mem
          /\ t' = r.t
          /\ result' = r.mem[result_ptr]
    /\ pc' = "done"
    /\ mul_calls' = mul_calls + 1
    /\ UNCHANGED <<op, host_vars, NEON_AVAILABLE, limb_count, count, a, b, modulus, mu,
                   helper_ret, bucket_vars, mem0, in_even, in_odd, twiddle_real, twiddle_imag,
                   out_even, out_odd, n_elems, reads>>

Mul4At == op = "mul4" /\ MulAt(4)
Mul6At == op = "mul6" /\ MulAt(6)

NextInPlace == Mul4At \/ Mul6At

SpecInPlace == InitInPlace /\ [][NextInPlace]_vars

\* C28: called with the result pointer equal to a or to b, the 4-limb and
\* 6-limb multiplies leave in that buffer the limbs they write to a separate
\* result buffer for the same a, b, modulus and mu, and leave the other
\* buffers as they were.
C28_InPlaceSameAsSeparate ==
    MontDone =>
        /\ mem[result_ptr] = EntryPoint(NEON_AVAILABLE).result
        /\ \A x \in DOMAIN mem \ {result_ptr} : mem[x] = mem0[x]

\* C28 witness: result is the a buffer, a differs from b, and the value
\* written differs from what a held
C28_Witness ==
    /\ MontDone /\ result_ptr = "a" /\ a # b
    /\ mem["a"] # a /\ mem["a"] = EntryPoint(NEON_AVAILABLE).result
    /\ UpperValue >= ModulusValue

(***************************************************************************)
(* vdsp_ntt_butterfly_f64 with out_even == in_even                         *)
(***************************************************************************)
\* the same call with outputs in buffers of their own
SeparateOutputs ==
    vdsp_ntt_butterfly_f64(APPLE, alloc_fail, mem0, in_even, in_odd, twiddle_real,
                           twiddle_imag, "out_even", "out_odd", n_elems)

\* C29: when out_even is the in_even buffer, the values written to out_even
\* and out_odd equal those of the call with separate output buffers: out_odd[i]
\* is in_even_original[i] - twiddle_real[i] * in_odd[i].
C29_InPlaceSameAsSeparate ==
    (ButterflyDone /\ out_even = "in_even" /\ out_odd = "out_odd") =>
        /\ mem[out_even] = SeparateOutputs.mem["out_even"]
        /\ mem[out_odd] = SeparateOutputs.mem["out_odd"]
        /\ \A i \in Elems : mem[out_odd][i] = mem0[in_even][i] - TwiddleProduct(i)

\* what the code does in that case: out_even is as with separate buffers, and
\* out_odd is computed from the in_even already overwritten with in_even + t,
\* that is, out_odd[i] = in_even_original[i]
C29_InPlaceOddIsOriginalEven ==
    (ButterflyDone /\ out_even = "in_even" /\ out_odd = "out_odd") =>
        /\ mem[out_even] = SeparateOutputs.mem["out_even"]
        /\ \A i \in Elems : mem[out_odd][i] = mem0[in_even][i]

(***************************************************************************)
(* Bucket accumulation under reordering and splitting of the points        *)
(***************************************************************************)
\* the call of the state's operation on other points and buckets, with the
\* allocation outcome fail
Accumulate(fail, keys, pts, bk, np) ==
    IF op = "sme"
    THEN sme_bucket_outer_product(APPLE, fail, g_sme_checked, g_sme_available, has_sme,
                                  keys, pts, bk, np, num_buckets, window_size).buckets
    ELSE blas_bucket_accumulate(APPLE, fail, keys, pts, bk, np, num_buckets,
                                coord_size).buckets

CallKeys == IF op = "sme" THEN scalars ELSE bucket_indices
CallAllocChoices == AllocChoices(APPLE, IF op = "sme" THEN 1 ELSE 1 + 2 * coord_size)
PointOrders == {p \in [PointIds -> PointIds] : \A i, j \in PointIds : p[i] = p[j] => i = j}

\* the (key, coordinates) pairs in the order p
KeysIn(p) == [i \in PointIds |-> CallKeys[p[i]]]
PointsIn(p) ==
    [k \in 0..(num_points * coord_size - 1) |->
        points[p[k \div coord_size] * coord_size + (k % coord_size)]]

\* the pairs from position first on
KeysFrom(first) == [i \in 0..(num_points - first - 1) |-> CallKeys[first + i]]
PointsFrom(first) ==
    [k \in 0..((num_points - first) * coord_size - 1) |-> points[first * coord_size + k]]

\* one call over the pairs in order p
Reordered(p, fail) == Accumulate(fail, KeysIn(p), PointsIn(p), buckets0, num_points)

\* a call over the first cut pairs, then a call over the rest on the same array
SplitAt(cut, fail1, fail2) ==
    Accumulate(fail2, KeysFrom(cut), PointsFrom(cut),
               Accumulate(fail1, CallKeys, points, buckets0, cut), num_points - cut)

\* C30: on integral data the final bucket array does not depend on the order
\* of the (index, coordinates) pairs nor on how they are split across calls:
\* one call over the pairs in any order, and a call over a prefix followed by
\* a call over the remaining suffix on the same array, end with the buckets of
\* one call over all points.
C30_OrderAndSplitIndependent ==
    BucketDone =>
        /\ \A p \in PointOrders, f \in CallAllocChoices : Reordered(p, f) = buckets
        /\ \A cut \in 0..num_points, f1 \in CallAllocChoices, f2 \in CallAllocChoices :
              SplitAt(cut, f1, f2) = buckets

\* what does hold: the calls compared all meeting the same allocation outcome,
\* the buckets are the same in every order and for every split
C30_IndependentUnderSameAllocation ==
    BucketDone =>
        /\ \A p \in PointOrders : Reordered(p, alloc_fail) = buckets
        /\ \A cut \in 0..num_points : SplitAt(cut, alloc_fail, alloc_fail) = buckets
====
